---------------------------- MODULE Spec2Model ----------------------------
(***************************************************************************)
(* Model of vk_checker_v4.py: the filters engine (op_compare,              *)
(* metric_value_from_stats, eval_conditions, eval_cost_rule,               *)
(* eval_filter_node, decide_action_for_banner) and the per-cabinet run     *)
(* (process_cabinet) with its two ledgers and the history file.            *)
(*                                                                         *)
(* Amounts are integers; derived costs (spent / clicks, spent / goals) are *)
(* exact fractions [n, d] compared by cross-multiplication.                *)
(***************************************************************************)
EXTENDS Integers, Sequences, FiniteSets, TLC

VARIABLES
    \* ---- inputs and result of one call of a function of the filters engine
    templates,          \* filters.json: the list of templates
    cabinet_id,         \* the cabinet (account) id the call is made for
    chain,              \* a FILTER node with its child chain, head first
    rule,               \* one rule of a FILTER node
    conditions,         \* one list of conditions
    stats_by_period,    \* period key -> banner id -> raw statistics
    income_store,       \* banner id -> IncomeStore entries of that banner
    banner_objectives,  \* banner id -> objective of the banner's ad group
    today,              \* the day dt.date.today() returns, as a day number
    ret,                \* what the call returned
    again,              \* what a second call with the same arguments returned
    \* ---- the per-cabinet run (process_cabinet): settings, platform, files
    pc,                 \* position of the run: "idle", "disable", "enable", "done"
    dry_run,            \* --dry-run
    max_disables,       \* --max-disables
    ignore_manual_enabled_ads,  \* setting of the user
    limit_disabled_banners_20,  \* setting of the user
    white_list,         \* white_list.json: [campaign_ids, banner_ids]
    black_list,         \* black_list.json: [campaign_ids, banner_ids]
    status,             \* the platform: id -> "active", "blocked", "absent"
    banner_stats,       \* the platform: id -> ALL_TIME statistics
    disabled_file,      \* disabled_banners.json: the list of records
    enabled_file,       \* enabled_banners.json: the list of records
    history,            \* history_banners.json: the list of records
    \* ---- locals of the run under way
    effective_max_disables,     \* cap of disables of the run
    whitelist_set,      \* [given, ids]: given = FALSE is None
    blacklist_set,      \* ids of the black list
    active_ids,         \* ids the platform lists as active, in list order
    blocked_ids,        \* ids the platform lists as blocked, in list order
    todo,               \* ids of the current loop that are still to be visited
    disabled_records,   \* the run's copy of disabled_banners.json: id -> status
    enabled_records,    \* the run's copy of enabled_banners.json: id -> status
    disabled_count,     \* disables done in the run
    \* ---- bookkeeping of the properties
    calls,              \* requests of the run: [id, action, response]
    hist_start,         \* length of the history when the run started
    stopped_at_cap,     \* the disable loop of the run was left at the cap
    settled,            \* nothing outside changed since a run that ended with
                        \* no failed request and not at the cap
    repeat,             \* the run under way started in a settled state
    runs,               \* number of runs started
    \* ---- the notification of a run (the end of process_cabinet)
    now_utc,            \* the clock, in minutes
    tg_notify_every_min,        \* setting of the user: <<>> is None, else <<minutes>>
    last_notify_utc,    \* notify_state.json: <<>> is None, else <<minute>>
    digests,            \* the digests handed to tg_notify: [off, on, delivered]
    \* ---- one invocation (main): users, their cabinets, the loop
    users,              \* per user the list of cabinets: [active, raises]
    position,           \* <<user, cabinet>> the loops of main are at
    attempted,          \* the <<user, cabinet>> process_cabinet was called for
    outcome,            \* "running" or "returned"
    \* ---- one write of a ledger file
    disk,               \* the file on disk: [text, closed]
    writer,             \* the write under way: [at, old, new]
    \* ---- the income file and one request with retries
    income_file,        \* the parsed income JSON: entries [day, data], or "" if unusable
    server,             \* the answers the server gives to the attempts, in order
    attempt,            \* the attempts req_with_retry has made
    last_exc            \* <<>> is None, else <<[attempt, error]>>

evalVars == <<templates, cabinet_id, chain, rule, conditions, stats_by_period,
              income_store, banner_objectives, today, ret, again>>
cfgVars  == <<dry_run, max_disables, ignore_manual_enabled_ads,
              limit_disabled_banners_20, white_list, black_list>>
platformVars == <<status, banner_stats>>
fileVars == <<disabled_file, enabled_file, history>>
localVars == <<effective_max_disables, whitelist_set, blacklist_set, active_ids,
               blocked_ids, todo, disabled_records, enabled_records, disabled_count>>
ghostVars == <<calls, hist_start, stopped_at_cap, settled, repeat>>
notifyVars == <<now_utc, tg_notify_every_min, last_notify_utc, digests>>
mainVars == <<users, position, attempted, outcome>>
storeVars == <<disk, writer>>
ioVars == <<income_file, server, attempt, last_exc>>
otherVars == <<notifyVars, mainVars, storeVars, ioVars>>
runVars  == <<pc, cfgVars, platformVars, fileVars, localVars, ghostVars, runs, otherVars>>
vars     == <<evalVars, runVars>>

----------------------------------------------------------------------------
(* Bounds of the model *)

MaxRules     == 2   \* rules per FILTER node
MaxNodes     == 2   \* nodes per chain
MaxTemplates == 2   \* templates per document
MaxPriority  == 2   \* priorities 0..MaxPriority
MaxRuns      == 2   \* runs of one cabinet
MaxDay       == 2   \* days 1..MaxDay

(* Program constants *)

EqTolInv        == 1000000000   \* 1 / 1e-9, the EQ tolerance of op_compare
DefaultPriority == 9999         \* priority of a template that has none
HardDisableCap  == 20           \* min(max_disables, 20) under limit_disabled_banners_20
NoDisableCap    == 1000000000   \* 10**9 otherwise

----------------------------------------------------------------------------
(* Numbers: a fraction is [n, d] with d > 0 *)

Rat(n, d) == [n |-> n, d |-> d]
Num(x)    == Rat(x, 1)
Less(a, b) == a.n * b.d < b.n * a.d
Minus(a, b) == Rat(a.n * b.d - b.n * a.d, a.d * b.d)
AbsNum(a) == IF a.n < 0 THEN -a.n ELSE a.n

Ops == {"LT", "LTE", "EQ", "GTE", "GT"}

(* a mutant of op_compare: an unknown operator compares as true *)
op_compare_open(left, op, right) ==
    CASE op = "LT"  -> Less(left, right)
      [] op = "LTE" -> ~Less(right, left)
      [] op = "EQ"  -> AbsNum(Minus(left, right)) <= (left.d * right.d - 1) \div EqTolInv
      [] op = "GTE" -> ~Less(left, right)
      [] op = "GT"  -> Less(right, left)
      [] OTHER      -> TRUE

op_compare(left, op, right) ==
    CASE op = "LT"  -> Less(left, right)
      [] op = "LTE" -> ~Less(right, left)
      [] op = "EQ"  -> AbsNum(Minus(left, right)) <= (left.d * right.d - 1) \div EqTolInv
      [] op = "GTE" -> ~Less(left, right)
      [] op = "GT"  -> Less(right, left)
      [] OTHER      -> FALSE

----------------------------------------------------------------------------
(* Periods and statistics *)

\* a period descriptor as written in filters.json; has_n tells whether the
\* key "n" is written
Period(type, has_n, n) == [type |-> type, has_n |-> has_n, n |-> n]
AllTime   == Period("ALL_TIME", FALSE, 0)
Today     == Period("TODAY", FALSE, 0)
NoPeriod  == Period("", FALSE, 0)           \* the key "period" is absent

\* cond.get("period") or {"type": "ALL_TIME"}
period_or_all_time(p) == IF p = NoPeriod THEN AllTime ELSE p

\* raw statistics of one banner over one period; {} is all zeros
Stats(spent, clicks, goals, cpc, cpa) ==
    [spent |-> spent, clicks |-> clicks, goals |-> goals, cpc |-> cpc, cpa |-> cpa]
EmptyStats == Stats(0, 0, 0, 0, 0)

\* stats_by_period.get(key, {}).get(banner_id, {}) or {}
stats_lookup(sbp, period, banner_id) ==
    IF period \in DOMAIN sbp
    THEN IF banner_id \in DOMAIN sbp[period] THEN sbp[period][banner_id] ELSE EmptyStats
    ELSE EmptyStats

MetricNames == {"SPENT", "CLICKS", "RESULTS", "CLICK_COST", "RESULT_COST", "CPC", "CPA"}

metric_value_from_stats(stats) ==
    LET click_cost  == IF stats.cpc > 0 THEN Num(stats.cpc)
                       ELSE IF stats.clicks > 0 THEN Rat(stats.spent, stats.clicks)
                       ELSE Num(0)
        result_cost == IF stats.cpa > 0 THEN Num(stats.cpa)
                       ELSE IF stats.goals > 0 THEN Rat(stats.spent, stats.goals)
                       ELSE Num(0)
    IN [m \in MetricNames |->
          CASE m = "SPENT"       -> Num(stats.spent)
            [] m = "CLICKS"      -> Num(stats.clicks)
            [] m = "RESULTS"     -> Num(stats.goals)
            [] m = "CLICK_COST"  -> click_cost
            [] m = "RESULT_COST" -> result_cost
            [] m = "CPC"         -> click_cost
            [] m = "CPA"         -> result_cost]

----------------------------------------------------------------------------
(* Rules *)

\* a rule of a FILTER node; is_dict = FALSE is an entry that is no JSON
\* object; op = "" is an absent operator
Rule(type, spentRub, metric, op, value, period) ==
    [is_dict |-> TRUE, type |-> type, spentRub |-> spentRub, metric |-> metric,
     op |-> op, value |-> value, period |-> period]
NotADictRule == [is_dict |-> FALSE, type |-> "", spentRub |-> 0, metric |-> "",
                 op |-> "", value |-> 0, period |-> NoPeriod]

\* x.get(key) or dflt, an absent key being ""
or_default(op, dflt) == IF op = "" THEN dflt ELSE op

\* a reason of a rule is the sequence of the parts the text is formatted from:
\* empty, or one part
NoReason == <<>>
RuleReason(r, period) ==
    <<[metric |-> r.metric, op |-> or_default(r.op, "EQ"), value |-> r.value,
       spentRub |-> r.spentRub, period |-> period]>>

\* a mutant of eval_cost_rule: the spend gate is not applied
eval_cost_rule_no_gate(r, banner_id, sbp) ==
    IF ~r.is_dict THEN [hit |-> FALSE, reason |-> NoReason]
    ELSE IF r.type # "COST_RULE" THEN [hit |-> FALSE, reason |-> NoReason]
    ELSE
      LET period == period_or_all_time(r.period)
          mv     == metric_value_from_stats(stats_lookup(sbp, period, banner_id))
      IN IF r.metric \notin DOMAIN mv THEN [hit |-> FALSE, reason |-> NoReason]
         ELSE IF ~op_compare(mv[r.metric], or_default(r.op, "EQ"), Num(r.value))
              THEN [hit |-> FALSE, reason |-> NoReason]
         ELSE [hit |-> TRUE,
               reason |-> RuleReason(r, period)]

\* (ok, reason); reason is the tuple the text is formatted from
eval_cost_rule(r, banner_id, sbp) ==
    IF ~r.is_dict THEN [hit |-> FALSE, reason |-> NoReason]
    ELSE IF r.type # "COST_RULE" THEN [hit |-> FALSE, reason |-> NoReason]
    ELSE
      LET period == period_or_all_time(r.period)
          mv     == metric_value_from_stats(stats_lookup(sbp, period, banner_id))
      IN IF Less(mv["SPENT"], Num(r.spentRub)) THEN [hit |-> FALSE, reason |-> NoReason]
         ELSE IF r.metric \notin DOMAIN mv THEN [hit |-> FALSE, reason |-> NoReason]
         ELSE IF ~op_compare(mv[r.metric], or_default(r.op, "EQ"), Num(r.value))
              THEN [hit |-> FALSE, reason |-> NoReason]
         ELSE [hit |-> TRUE,
               reason |-> RuleReason(r, period)]

----------------------------------------------------------------------------
(* Income *)

\* the part of IncomeStore that matters: total[bid] and by_day as a sequence
\* of day maps, by_day[d] the map of day number d
IncomeStore(total, by_day) == [total |-> total, by_day |-> by_day]

\* self.by_day.get(key, {}).get(bid, 0.0) for the day `back` days ago
income_of_day(store, bid, back) ==
    LET key == today - back
    IN IF key \in DOMAIN store.by_day /\ bid \in DOMAIN store.by_day[key]
       THEN store.by_day[key][bid] ELSE 0

RECURSIVE income_last_days(_, _, _)
income_last_days(store, bid, n) ==
    IF n = 0 THEN 0
    ELSE income_of_day(store, bid, n - 1) + income_last_days(store, bid, n - 1)

income_for_period(store, bid, period) ==
    CASE period.type = "ALL_TIME"    -> IF bid \in DOMAIN store.total THEN store.total[bid] ELSE 0
      [] period.type = "TODAY"       -> income_of_day(store, bid, 0)
      [] period.type = "YESTERDAY"   -> income_of_day(store, bid, 1)
      [] period.type = "LAST_N_DAYS" ->
            income_last_days(store, bid,
                IF period.has_n /\ period.n > 1 THEN period.n ELSE 1)
      [] OTHER                       -> 0

----------------------------------------------------------------------------
(* Conditions *)

objective_to_target_action(objective) ==
    CASE objective = "socialengagement" -> "BOT_MESSAGE"
      [] objective = "site_conversions" -> "SITE"
      [] objective = "leadads"          -> "LEADFORM"
      [] OTHER                          -> "APP"

\* banner_objectives here maps the banner straight to the objective of its
\* ad group (banner -> ad_group_id -> objective in the code)
banner_target_action_from_groups(bid, objectives) ==
    objective_to_target_action(IF bid \in DOMAIN objectives THEN objectives[bid] ELSE "")

\* a condition; is_dict = FALSE is an entry that is no JSON object; op = ""
\* and mode = "" are absent keys
Cond(type, period, op, valueRub, mode, multiplier, spendPeriod, target) ==
    [is_dict |-> TRUE, type |-> type, period |-> period, op |-> op,
     valueRub |-> valueRub, mode |-> mode, multiplier |-> multiplier,
     spendPeriod |-> spendPeriod, target |-> target]
NotADictCond == [is_dict |-> FALSE, type |-> "", period |-> NoPeriod, op |-> "",
                 valueRub |-> 0, mode |-> "", multiplier |-> 0,
                 spendPeriod |-> NoPeriod, target |-> ""]

HasModes    == {"HAS", "EXISTS"}
HasNotModes == {"HAS_NOT", "NOT_HAS", "NOT", "NONE", "NO", "EMPTY", "ZERO"}

\* the body of the loop of eval_conditions for one entry: "skip" (continue),
\* "pass" (fall through to the next entry) or "fail" (return False)
eval_one_condition(cond, bid, sbp, store, objectives) ==
    IF ~cond.is_dict THEN "skip"
    ELSE CASE cond.type = "SPENT" ->
                LET mv == metric_value_from_stats(
                              stats_lookup(sbp, period_or_all_time(cond.period), bid))
                IN IF op_compare(mv["SPENT"], or_default(cond.op, "GTE"), Num(cond.valueRub))
                   THEN "pass" ELSE "fail"
           [] cond.type = "INCOME" ->
                LET income == income_for_period(store, bid, period_or_all_time(cond.period))
                    mode   == IF cond.mode = "" THEN "HAS" ELSE cond.mode
                IN CASE mode \in HasModes    -> IF income <= 0 THEN "fail" ELSE "pass"
                     [] mode \in HasNotModes -> IF income > 0 THEN "fail" ELSE "pass"
                     [] mode = "COMPARE" ->
                          IF cond.op = "" THEN "fail"
                          ELSE IF op_compare(Num(income), cond.op, Num(cond.valueRub))
                               THEN "pass" ELSE "fail"
                     [] mode = "COMPARE_SPEND" ->
                          IF cond.op = "" THEN "fail"
                          ELSE LET spend == metric_value_from_stats(
                                      stats_lookup(sbp, period_or_all_time(cond.spendPeriod),
                                                   bid))["SPENT"]
                                   delta == Minus(Num(income), spend)
                               IN IF op_compare(delta, cond.op, Num(cond.multiplier))
                                  THEN "pass" ELSE "fail"
                     [] OTHER -> "fail"
           [] cond.type = "TARGET_ACTION" ->
                IF cond.target = "" THEN "skip"
                ELSE IF banner_target_action_from_groups(bid, objectives) # cond.target
                     THEN "fail" ELSE "pass"
           [] OTHER -> "fail"

\* a mutant of eval_conditions: an entry of an unknown type is skipped
eval_conditions_skip_unknown(conds, bid, sbp, store, objectives) ==
    \A i \in 1..Len(conds) :
        \/ ~conds[i].is_dict
        \/ conds[i].type \notin {"SPENT", "INCOME", "TARGET_ACTION"}
        \/ eval_one_condition(conds[i], bid, sbp, store, objectives) # "fail"

\* True unless the loop reaches an entry at which it returns False
eval_conditions(conds, bid, sbp, store, objectives) ==
    \A i \in 1..Len(conds) :
        eval_one_condition(conds[i], bid, sbp, store, objectives) # "fail"

\* the entries conditions_to_reason writes a part for
conditions_to_reason(conds) ==
    SelectSeq(conds, LAMBDA c : c.is_dict /\ c.type \in {"SPENT", "INCOME", "TARGET_ACTION"})

----------------------------------------------------------------------------
(* FILTER nodes *)

\* node.action; type = "" is an absent action, state = "" an absent state
Action(type, state) == [type |-> type, state |-> state]
SetState(state)     == Action("SET_STATE", state)
States              == {"DISABLE", "ENABLE", "NOOP"}

\* (action.get("state") or "NOOP").upper()
state_or_noop(a) == IF a.state = "" THEN "NOOP" ELSE a.state

\* a mutant of valid_action: every action counts
valid_action_any(a) == TRUE

\* isinstance(action, dict), type SET_STATE and a state of DISABLE, ENABLE, NOOP
valid_action(a) == a.type = "SET_STATE" /\ state_or_noop(a) \in States

\* a node of a chain; the chain is the sequence node, node.child,
\* node.child.child, ... (the child of the last node is absent)
Node(type, mode, conds, rules, action) ==
    [type |-> type, mode |-> mode, conditions |-> conds, rules |-> rules,
     action |-> action]

is_cost_rule(r) == r.is_dict /\ r.type = "COST_RULE"

\* the first loop of eval_filter_node: some RESULT_COST / CPA rule of the
\* node compares true, its spend gate ignored, over a period with goals > 0
result_cost_value_ok(rules, bid, sbp) ==
    \E i \in 1..Len(rules) :
        /\ is_cost_rule(rules[i])
        /\ rules[i].metric \in {"RESULT_COST", "CPA"}
        /\ LET mv == metric_value_from_stats(
                        stats_lookup(sbp, period_or_all_time(rules[i].period), bid))
           IN /\ Less(Num(0), mv["RESULTS"])
              /\ op_compare(mv["RESULT_COST"], or_default(rules[i].op, "EQ"), Num(rules[i].value))

\* a mutant of rule_hits: no priority of RESULT_COST over CLICK_COST
rule_hits_no_shortcut(rules, bid, sbp) ==
    [i \in 1..Len(rules) |->
        IF is_cost_rule(rules[i]) THEN eval_cost_rule(rules[i], bid, sbp)
        ELSE [hit |-> FALSE, reason |-> NoReason]]

\* the second loop of eval_filter_node: one (ok, reason) per rule
rule_hits(rules, bid, sbp) ==
    [i \in 1..Len(rules) |->
        IF is_cost_rule(rules[i])
        THEN IF result_cost_value_ok(rules, bid, sbp) /\ rules[i].metric \in {"CLICK_COST", "CPC"}
             THEN [hit |-> TRUE, reason |-> NoReason]
             ELSE eval_cost_rule(rules[i], bid, sbp)
        ELSE [hit |-> FALSE, reason |-> NoReason]]

\* a mutant of node_matched: an empty rule list matches under ALL
node_matched_empty_all(mode, hits) ==
    IF mode = "ANY" THEN \E i \in 1..Len(hits) : hits[i].hit
    ELSE \A i \in 1..Len(hits) : hits[i].hit

node_matched(mode, hits) ==
    IF Len(hits) = 0 THEN FALSE
    ELSE IF mode = "ANY" THEN \E i \in 1..Len(hits) : hits[i].hit
    ELSE \A i \in 1..Len(hits) : hits[i].hit

RECURSIVE concat_reasons(_, _)
concat_reasons(hits, i) ==
    IF i > Len(hits) THEN <<>>
    ELSE (IF hits[i].hit THEN hits[i].reason ELSE <<>>) \o concat_reasons(hits, i + 1)

\* reasons[0] under ANY, "; ".join(reasons) otherwise
node_reason(mode, hits) ==
    LET all == concat_reasons(hits, 1)
    IN IF mode = "ANY" /\ Len(all) > 0 THEN <<all[1]>> ELSE all

\* what eval_filter_node returns, and `node`: the position in the chain of
\* the node at which the walk ended (0 when it ran off the chain)
NodeResult(state, reason, matched_action, node) ==
    [state |-> state, reason |-> reason, matched_action |-> matched_action, node |-> node]

\* a mutant of eval_filter_node: the conditions of a node are not evaluated
RECURSIVE eval_filter_node_no_gate(_, _, _, _, _, _)
eval_filter_node_no_gate(ch, i, bid, sbp, store, objectives) ==
    IF i > Len(ch) THEN NodeResult("NOOP", NoReason, FALSE, 0)
    ELSE IF ch[i].type # "FILTER"
         THEN eval_filter_node_no_gate(ch, i + 1, bid, sbp, store, objectives)
    ELSE LET hits == rule_hits(ch[i].rules, bid, sbp)
         IN IF node_matched(or_default(ch[i].mode, "ALL"), hits)
            THEN IF valid_action(ch[i].action)
                 THEN NodeResult(state_or_noop(ch[i].action),
                                 node_reason(or_default(ch[i].mode, "ALL"), hits), TRUE, i)
                 ELSE NodeResult("NOOP", NoReason, FALSE, i)
            ELSE eval_filter_node_no_gate(ch, i + 1, bid, sbp, store, objectives)

\* eval_filter_node on the i-th node of the chain
RECURSIVE eval_filter_node(_, _, _, _, _, _)
eval_filter_node(ch, i, bid, sbp, store, objectives) ==
    IF i > Len(ch) THEN NodeResult("NOOP", NoReason, FALSE, 0)
    ELSE IF ch[i].type # "FILTER"
         THEN eval_filter_node(ch, i + 1, bid, sbp, store, objectives)
    ELSE IF /\ Len(ch[i].conditions) > 0
            /\ ~eval_conditions(ch[i].conditions, bid, sbp, store, objectives)
         THEN eval_filter_node(ch, i + 1, bid, sbp, store, objectives)
    ELSE LET hits == rule_hits(ch[i].rules, bid, sbp)
         IN IF node_matched(or_default(ch[i].mode, "ALL"), hits)
            THEN IF valid_action(ch[i].action)
                 THEN NodeResult(state_or_noop(ch[i].action),
                                 node_reason(or_default(ch[i].mode, "ALL"), hits), TRUE, i)
                 ELSE NodeResult("NOOP", NoReason, FALSE, i)
            ELSE eval_filter_node(ch, i + 1, bid, sbp, store, objectives)

----------------------------------------------------------------------------
(* Templates *)

\* root.accountsScope; mode = "" is an absent mode; is_list tells whether
\* "selected" is a list
Scope(mode, is_list, selected) == [mode |-> mode, is_list |-> is_list, selected |-> selected]

\* a mutant of accounts_scope_allows: SELECTED lets every cabinet in
accounts_scope_allows_all(scope, cab) ==
    LET mode == or_default(scope.mode, "ALL")
    IN CASE mode = "ALL"      -> TRUE
         [] mode = "SELECTED" -> TRUE
         [] OTHER             -> FALSE

accounts_scope_allows(scope, cab) ==
    LET mode == or_default(scope.mode, "ALL")
    IN CASE mode = "ALL"      -> TRUE
         [] mode = "SELECTED" -> IF scope.is_list THEN cab \in scope.selected ELSE FALSE
         [] OTHER             -> FALSE

\* a template: its priority and its root (accountsScope, conditions, child);
\* child is the chain of FILTER nodes, head first
Template(priority, scope, conds, child) ==
    [priority |-> priority, accountsScope |-> scope, conditions |-> conds, child |-> child]

\* int(x.get("priority", 9999) or 9999)
sort_key(t) == IF t.priority = 0 THEN DefaultPriority ELSE t.priority

\* sorted(templates, key=...): the positions of the templates in the order
\* of a stable sort by sort_key
ordered(tpls) ==
    LET n == Len(tpls)
        rank(i) == Cardinality({j \in 1..n :
                        \/ sort_key(tpls[j]) < sort_key(tpls[i])
                        \/ (sort_key(tpls[j]) = sort_key(tpls[i]) /\ j < i)}) + 1
    IN [k \in 1..n |-> CHOOSE i \in 1..n : rank(i) = k]

\* the reason of a decision: which text it is made of
Reason(kind, root, rules) == [kind |-> kind, root |-> root, rules |-> rules]
EmptyReason == Reason("", <<>>, <<>>)

\* what decide_action_for_banner returns (state, reason), and how it got
\* there: tpl = position in `templates` of the template that decided (0:
\* none), consulted = the templates the loop visited, in order, via = "root"
\* (the direct action of a head node without rules), "node" or "default",
\* node = position in the chain of the node that decided
Decision(state, reason, tpl, consulted, via, node) ==
    [state |-> state, reason |-> reason, tpl |-> tpl, consulted |-> consulted,
     via |-> via, node |-> node]

\* the block of decide_action_for_banner that returns the action of a head
\* node without rules once the root conditions passed
root_direct_action(t) ==
    /\ Len(t.conditions) > 0
    /\ Len(t.child) > 0
    /\ t.child[1].type = "FILTER"
    /\ Len(t.child[1].rules) = 0
    /\ valid_action(t.child[1].action)

root_reason(t) ==
    IF Len(conditions_to_reason(t.conditions)) > 0
    THEN Reason("root", conditions_to_reason(t.conditions), <<>>)
    ELSE Reason("root_default", <<>>, <<>>)

node_or_root_reason(t, r) ==
    IF Len(r.reason) > 0 THEN Reason("rules", <<>>, r.reason)
    ELSE IF Len(t.conditions) > 0 /\ Len(conditions_to_reason(t.conditions)) > 0
         THEN Reason("root", conditions_to_reason(t.conditions), <<>>)
    ELSE EmptyReason

\* the loop of decide_action_for_banner from position k of the sorted list
RECURSIVE decide_from(_, _, _, _, _, _, _, _, _)
decide_from(ord, k, tpls, cab, bid, sbp, store, objectives, consulted) ==
    IF k > Len(ord) THEN Decision("NOOP", EmptyReason, 0, consulted, "default", 0)
    ELSE
      LET t    == tpls[ord[k]]
          seen == Append(consulted, ord[k])
          next == decide_from(ord, k + 1, tpls, cab, bid, sbp, store, objectives, seen)
      IN IF ~accounts_scope_allows(t.accountsScope, cab) THEN next
         ELSE IF /\ Len(t.conditions) > 0
                 /\ ~eval_conditions(t.conditions, bid, sbp, store, objectives)
              THEN next
         ELSE IF root_direct_action(t)
              THEN Decision(state_or_noop(t.child[1].action), root_reason(t),
                            ord[k], seen, "root", 1)
         ELSE LET r == eval_filter_node(t.child, 1, bid, sbp, store, objectives)
              IN IF r.matched_action
                 THEN Decision(r.state, node_or_root_reason(t, r), ord[k], seen,
                               "node", r.node)
                 ELSE next

decide_action_for_banner(tpls, cab, bid, sbp, store, objectives) ==
    decide_from(ordered(tpls), 1, tpls, cab, bid, sbp, store, objectives, <<>>)

----------------------------------------------------------------------------
(* The run of one cabinet: no run is under way, no file exists *)

Banners == {1, 2}

NoRecords == [b \in Banners |-> ""]

NoWhitelist == [given |-> FALSE, ids |-> {}]

\* a list file: the campaign ids and the banner ids it names
ListFile(campaign_ids, banner_ids) ==
    [campaign_ids |-> campaign_ids, banner_ids |-> banner_ids]
NoList == ListFile({}, {})

\* no notification, no invocation and no write is under way
NotifyIdle ==
    /\ now_utc = 0
    /\ tg_notify_every_min = <<>>
    /\ last_notify_utc = <<>>
    /\ digests = <<>>

MainIdle ==
    /\ users = <<>>
    /\ position = <<1, 1>>
    /\ attempted = {}
    /\ outcome = "returned"

StoreIdle ==
    /\ disk = [text |-> <<>>, closed |-> TRUE]
    /\ writer = [at |-> "idle", old |-> <<>>, new |-> <<>>]

IoIdle ==
    /\ income_file = <<>>
    /\ server = <<>>
    /\ attempt = 0
    /\ last_exc = <<>>

OtherIdle == NotifyIdle /\ MainIdle /\ StoreIdle /\ IoIdle

RunIdleButOther ==
    /\ pc = "idle"
    /\ dry_run = FALSE
    /\ max_disables = 1
    /\ ignore_manual_enabled_ads = FALSE
    /\ limit_disabled_banners_20 = TRUE
    /\ white_list = NoList
    /\ black_list = NoList
    /\ status = [b \in Banners |-> "absent"]
    /\ banner_stats = [b \in Banners |-> EmptyStats]
    /\ disabled_file = <<>>
    /\ enabled_file = <<>>
    /\ history = <<>>
    /\ effective_max_disables = NoDisableCap
    /\ whitelist_set = NoWhitelist
    /\ blacklist_set = {}
    /\ active_ids = <<>>
    /\ blocked_ids = <<>>
    /\ todo = <<>>
    /\ disabled_records = NoRecords
    /\ enabled_records = NoRecords
    /\ disabled_count = 0
    /\ calls = <<>>
    /\ hist_start = 0
    /\ stopped_at_cap = FALSE
    /\ settled = FALSE
    /\ repeat = FALSE
    /\ runs = 0

RunIdle == RunIdleButOther /\ OtherIdle

----------------------------------------------------------------------------
(* Calls of the functions of the filters engine on inputs from bounded    *)
(* sets. Every call is made for banner 1 of cabinet "c1".                  *)

NoRet == [fn |-> "", val |-> FALSE]

\* sequences over S of length 0..n
RECURSIVE SeqsUpTo(_, _)
SeqsUpTo(S, n) ==
    IF n = 0 THEN {<<>>}
    ELSE LET shorter == SeqsUpTo(S, n - 1)
         IN shorter \cup {Append(q, x) : q \in shorter, x \in S}

\* statistics of banner 1: ALL_TIME and TODAY
StatsInputs ==
    {Stats(spent, clicks, goals, cpc, cpa) :
        spent \in {0, 250, 350}, clicks \in {0, 5}, goals \in {0, 1, 2},
        cpc \in {0, 60}, cpa \in {0, 350}}
TodayInputs == {EmptyStats, Stats(350, 5, 1, 0, 0)}

StatsByPeriod(all_time, of_today) ==
    [p \in {AllTime, Today} |-> [b \in {1} |-> IF p = AllTime THEN all_time ELSE of_today]]

NoIncome == IncomeStore([b \in {1} |-> 0], <<>>)

EvalIdle ==
    /\ templates = <<>>
    /\ cabinet_id = "c1"
    /\ chain = <<>>
    /\ rule = NotADictRule
    /\ conditions = <<>>
    /\ income_store = NoIncome
    /\ banner_objectives = [b \in {1} |-> ""]
    /\ today = 1
    /\ ret = NoRet
    /\ again = NoRet

(* ---- eval_cost_rule ---- *)

RuleInputs ==
    {Rule("COST_RULE", spentRub, metric, op, value, period) :
        spentRub \in {0, 300},
        metric \in MetricNames \cup {"FOO"},
        op \in Ops \cup {"XX", ""},
        value \in {60, 300},
        period \in {NoPeriod, AllTime, Today}}
    \cup {Rule("OTHER", 0, "SPENT", "GTE", 0, NoPeriod), NotADictRule}

InitRule ==
    /\ RunIdle
    /\ templates = <<>>
    /\ cabinet_id = "c1"
    /\ chain = <<>>
    /\ rule \in RuleInputs
    /\ conditions = <<>>
    /\ \E a \in StatsInputs, t \in TodayInputs : stats_by_period = StatsByPeriod(a, t)
    /\ income_store = NoIncome
    /\ banner_objectives = [b \in {1} |-> ""]
    /\ today = 1
    /\ ret = NoRet
    /\ again = NoRet

CallEvalCostRule ==
    /\ ret.fn = ""
    /\ ret' = [fn |-> "eval_cost_rule", val |-> eval_cost_rule(rule, 1, stats_by_period)]
    /\ UNCHANGED <<templates, cabinet_id, chain, rule, conditions, stats_by_period,
                   income_store, banner_objectives, today, again>>
    /\ UNCHANGED runVars

NextRule == CallEvalCostRule
SpecRule == InitRule /\ [][NextRule]_vars


(* ---- eval_filter_node on a head node, alone or with one fallback node ---- *)

SpentAtLeast300 == Cond("SPENT", NoPeriod, "GTE", 300, "", 0, NoPeriod, "")

NodeRuleInputs ==
    { Rule("COST_RULE", 300, "RESULT_COST", "GTE", 300, NoPeriod),
      Rule("COST_RULE", 0, "CPA", "LT", 300, AllTime),
      Rule("COST_RULE", 0, "RESULT_COST", "EQ", 350, Today),
      Rule("COST_RULE", 300, "CLICK_COST", "GT", 60, NoPeriod),
      Rule("COST_RULE", 0, "CLICK_COST", "LTE", 60, Today),
      Rule("COST_RULE", 0, "CPC", "XX", 0, NoPeriod),
      Rule("COST_RULE", 0, "FOO", "GTE", 0, NoPeriod),
      Rule("COST_RULE", 0, "SPENT", "GTE", 0, NoPeriod),
      Rule("COST_RULE", 0, "SPENT", "", 350, NoPeriod),
      Rule("OTHER", 0, "SPENT", "GTE", 0, NoPeriod),
      Rule("OTHER", 0, "CLICK_COST", "GTE", 0, NoPeriod),
      NotADictRule }

NodeStatsInputs ==
    {Stats(spent, clicks, goals, 0, cpa) :
        spent \in {250, 350}, clicks \in {0, 5}, goals \in {0, 1}, cpa \in {0, 350}}

\* the fallback node: it matches every banner and says NOOP
FallbackNode ==
    Node("FILTER", "ALL", <<>>, <<Rule("COST_RULE", 0, "SPENT", "GTE", 0, NoPeriod)>>,
         SetState("NOOP"))

InitNode ==
    /\ RunIdle
    /\ templates = <<>>
    /\ cabinet_id = "c1"
    /\ \E mode \in {"ALL", "ANY"}, gate \in {<<>>, <<SpentAtLeast300>>},
          rules \in SeqsUpTo(NodeRuleInputs, MaxRules), rest \in {<<>>, <<FallbackNode>>} :
          chain = <<Node("FILTER", mode, gate, rules, SetState("DISABLE"))>> \o rest
    /\ rule = NotADictRule
    /\ conditions = <<>>
    /\ \E a \in NodeStatsInputs, t \in TodayInputs : stats_by_period = StatsByPeriod(a, t)
    /\ income_store = NoIncome
    /\ banner_objectives = [b \in {1} |-> ""]
    /\ today = 1
    /\ ret = NoRet
    /\ again = NoRet

\* hits: the rule_hits list of the head node
CallEvalFilterNode ==
    /\ ret.fn = ""
    /\ ret' = [fn   |-> "eval_filter_node",
               val  |-> eval_filter_node(chain, 1, 1, stats_by_period, income_store,
                                         banner_objectives),
               hits |-> rule_hits(chain[1].rules, 1, stats_by_period)]
    /\ UNCHANGED <<templates, cabinet_id, chain, rule, conditions, stats_by_period,
                   income_store, banner_objectives, today, again>>
    /\ UNCHANGED runVars

NextNode == CallEvalFilterNode
SpecNode == InitNode /\ [][NextNode]_vars

(* ---- eval_conditions ---- *)

MaxConds == 2   \* conditions per list

CondInputs ==
    { Cond("SPENT", NoPeriod, "GTE", 300, "", 0, NoPeriod, ""),
      Cond("SPENT", Today, "", 300, "", 0, NoPeriod, ""),
      Cond("SPENT", NoPeriod, "XX", 0, "", 0, NoPeriod, ""),
      Cond("INCOME", NoPeriod, "", 0, "", 0, NoPeriod, ""),
      Cond("INCOME", Today, "", 0, "HAS_NOT", 0, NoPeriod, ""),
      Cond("INCOME", NoPeriod, "GT", 100, "COMPARE", 0, NoPeriod, ""),
      Cond("INCOME", NoPeriod, "XX", 0, "COMPARE", 0, NoPeriod, ""),
      Cond("INCOME", NoPeriod, "", 0, "COMPARE", 0, NoPeriod, ""),
      Cond("INCOME", NoPeriod, "GTE", 0, "COMPARE_SPEND", 100, Today, ""),
      Cond("INCOME", NoPeriod, "", 0, "SOMETIMES", 0, NoPeriod, ""),
      Cond("TARGET_ACTION", NoPeriod, "", 0, "", 0, NoPeriod, "SITE"),
      Cond("TARGET_ACTION", NoPeriod, "", 0, "", 0, NoPeriod, ""),
      Cond("CLICKS", NoPeriod, "GTE", 0, "", 0, NoPeriod, ""),
      NotADictCond }

IncomeInputs ==
    {IncomeStore([b \in {1} |-> total], <<[b \in {1} |-> of_today]>>) :
        total \in {0, 500}, of_today \in {0, 500}}

InitCond ==
    /\ RunIdle
    /\ templates = <<>>
    /\ cabinet_id = "c1"
    /\ chain = <<>>
    /\ rule = NotADictRule
    /\ conditions \in SeqsUpTo(CondInputs, MaxConds)
    /\ \E a \in {EmptyStats, Stats(350, 5, 1, 0, 0)}, t \in TodayInputs :
          stats_by_period = StatsByPeriod(a, t)
    /\ income_store \in IncomeInputs
    /\ banner_objectives \in [{1} -> {"site_conversions", "leadads"}]
    /\ today = 1
    /\ ret = NoRet
    /\ again = NoRet

CallEvalConditions ==
    /\ ret.fn = ""
    /\ ret' = [fn  |-> "eval_conditions",
               val |-> eval_conditions(conditions, 1, stats_by_period, income_store,
                                       banner_objectives)]
    /\ UNCHANGED <<templates, cabinet_id, chain, rule, conditions, stats_by_period,
                   income_store, banner_objectives, today, again>>
    /\ UNCHANGED runVars

NextCond == CallEvalConditions
SpecCond == InitCond /\ [][NextCond]_vars


(* ---- decide_action_for_banner ---- *)

IncomeExists == Cond("INCOME", NoPeriod, "", 0, "HAS", 0, NoPeriod, "")

ResultCostAtLeast300 == Rule("COST_RULE", 300, "RESULT_COST", "GTE", 300, NoPeriod)
AnySpend             == Rule("COST_RULE", 0, "SPENT", "GTE", 0, NoPeriod)

\* the nodes chains are made of: nodes without rules, nodes of one rule
\* (with a valid or an invalid action), and a node that is no FILTER
ChainNodeInputs ==
    {Node("FILTER", mode, gate, <<>>, SetState(state)) :
        mode \in {"ALL", "ANY"}, gate \in {<<>>, <<SpentAtLeast300>>},
        state \in {"DISABLE", "NOOP"}}
    \cup
    {Node("FILTER", "ALL", gate, <<r>>, action) :
        gate \in {<<>>, <<SpentAtLeast300>>}, r \in {ResultCostAtLeast300, AnySpend},
        action \in {SetState("DISABLE"), SetState("NOOP"), Action("OTHER", "DISABLE")}}
    \cup
    {Node("GROUP", "ALL", <<>>, <<AnySpend>>, SetState("DISABLE"))}

ScopeOfAll      == Scope("ALL", FALSE, {})
ScopeOfOthers   == Scope("SELECTED", TRUE, {"c2"})
ScopeInputs ==
    {Scope("", FALSE, {}), ScopeOfAll, Scope("SELECTED", TRUE, {"c1", "c2"}),
     ScopeOfOthers, Scope("SELECTED", FALSE, {}), Scope("NONE", TRUE, {"c1"})}

\* one template with any chain
OneTemplateInputs ==
    {<<Template(1, ScopeOfAll, conds, child)>> :
        conds \in {<<>>, <<SpentAtLeast300>>, <<IncomeExists>>},
        child \in SeqsUpTo(ChainNodeInputs, MaxNodes)}

\* one template with any scope
ScopedTemplateInputs ==
    {<<Template(1, scope, <<>>, <<Node("FILTER", "ALL", <<>>, <<AnySpend>>, SetState("DISABLE"))>>)>> :
        scope \in ScopeInputs}

\* several templates with chains of one node
PriorityTemplateInputs ==
    {Template(priority, root[1], root[2], <<Node("FILTER", "ALL", <<>>, <<nr[1]>>, SetState(nr[2]))>>) :
        priority \in 0..MaxPriority,
        root \in {<<ScopeOfAll, <<>> >>, <<ScopeOfAll, <<SpentAtLeast300>> >>,
                  <<ScopeOfOthers, <<>> >>},
        nr \in {<<AnySpend, "NOOP">>, <<AnySpend, "DISABLE">>,
                <<ResultCostAtLeast300, "ENABLE">>}}

InitDecide ==
    /\ RunIdle
    /\ \/ templates \in OneTemplateInputs
       \/ templates \in ScopedTemplateInputs
       \/ templates \in SeqsUpTo(PriorityTemplateInputs, MaxTemplates)
    /\ cabinet_id = "c1"
    /\ chain = <<>>
    /\ rule = NotADictRule
    /\ conditions = <<>>
    /\ \E a \in {EmptyStats, Stats(350, 0, 1, 0, 0)} :
          stats_by_period = StatsByPeriod(a, EmptyStats)
    /\ \E total \in {0, 500} : income_store = IncomeStore([b \in {1} |-> total], <<>>)
    /\ banner_objectives = [b \in {1} |-> ""]
    /\ today = 1
    /\ ret = NoRet
    /\ again = NoRet

CallDecide ==
    /\ ret.fn = ""
    /\ ret' = [fn  |-> "decide_action_for_banner",
               val |-> decide_action_for_banner(templates, cabinet_id, 1, stats_by_period,
                                                income_store, banner_objectives)]
    /\ UNCHANGED <<templates, cabinet_id, chain, rule, conditions, stats_by_period,
                   income_store, banner_objectives, today, again>>
    /\ UNCHANGED runVars

NextDecide == CallDecide
SpecDecide == InitDecide /\ [][NextDecide]_vars

(* ---- decide_action_for_banner, called twice with the same arguments ---- *)

IncomeToday == Cond("INCOME", Today, "", 0, "HAS", 0, NoPeriod, "")
IncomeLastDays == Cond("INCOME", Period("LAST_N_DAYS", TRUE, 2), "GT", 100, "COMPARE", 0, NoPeriod, "")

\* one template whose root conditions look at the income of a window
WindowTemplateInputs ==
    {<<Template(1, ScopeOfAll, conds,
                <<Node("FILTER", "ALL", <<>>, <<AnySpend>>, SetState(state))>>)>> :
        conds \in {<<>>, <<IncomeExists>>, <<IncomeToday>>, <<IncomeLastDays>>,
                   <<IncomeExists, IncomeToday>>},
        state \in States}

DayIncomeInputs ==
    {IncomeStore([b \in {1} |-> total], [d \in 1..MaxDay |-> [b \in {1} |-> day[d]]]) :
        total \in {0, 500}, day \in [1..MaxDay -> {0, 500}]}

InitRepeat ==
    /\ RunIdle
    /\ templates \in WindowTemplateInputs
    /\ cabinet_id = "c1"
    /\ chain = <<>>
    /\ rule = NotADictRule
    /\ conditions = <<>>
    /\ \E a \in {EmptyStats, Stats(350, 0, 1, 0, 0)} :
          stats_by_period = StatsByPeriod(a, EmptyStats)
    /\ income_store \in DayIncomeInputs
    /\ banner_objectives = [b \in {1} |-> ""]
    /\ today \in 1..MaxDay
    /\ ret = NoRet
    /\ again = NoRet

\* the date changes between the two calls
Midnight ==
    /\ ret.fn = "decide_action_for_banner"
    /\ again.fn = ""
    /\ today < MaxDay
    /\ today' = today + 1
    /\ UNCHANGED <<templates, cabinet_id, chain, rule, conditions, stats_by_period,
                   income_store, banner_objectives, ret, again>>
    /\ UNCHANGED runVars

CallDecideAgain ==
    /\ ret.fn = "decide_action_for_banner"
    /\ again.fn = ""
    /\ again' = [fn  |-> "decide_action_for_banner",
                 val |-> decide_action_for_banner(templates, cabinet_id, 1, stats_by_period,
                                                  income_store, banner_objectives)]
    /\ UNCHANGED <<templates, cabinet_id, chain, rule, conditions, stats_by_period,
                   income_store, banner_objectives, today, ret>>
    /\ UNCHANGED runVars

NextRepeat == CallDecide \/ Midnight \/ CallDecideAgain
SpecRepeat == InitRepeat /\ [][NextRepeat]_vars

----------------------------------------------------------------------------
(* The run of one cabinet: process_cabinet.  Storage reads and writes     *)
(* succeed; --only-spent-all-time-lte-5000 is off.                         *)

\* the ids of S, ascending
RECURSIVE SortedSeq(_)
SortedSeq(S) ==
    IF S = {} THEN <<>>
    ELSE LET m == CHOOSE x \in S : \A y \in S : x <= y
         IN <<m>> \o SortedSeq(S \ {m})

\* a mutant of make_banner_record: the status is always off
make_banner_record_always_off(bid, st) == [id_banner |-> bid, status |-> "off"]

\* the part of a banner record that matters: id_banner and status
make_banner_record(bid, st) == [id_banner |-> bid, status |-> st]

\* the JSON list of a ledger file as id -> status, a later record of the
\* list replacing an earlier one of the same id; "" is no record
load_disabled_records(file) ==
    [b \in Banners |->
        LET at == {i \in 1..Len(file) : file[i].id_banner = b}
        IN IF at = {} THEN ""
           ELSE file[CHOOSE i \in at : \A k \in at : k <= i].status]

\* list(records.values())
save_disabled_records(records) ==
    LET ids == SortedSeq({b \in Banners : records[b] # ""})
    IN [i \in 1..Len(ids) |-> make_banner_record(ids[i], records[ids[i]])]

\* a mutant of append_history: the write fails silently
append_history_lost(his, rec) == his

\* data.append(record) and the file written back
append_history(his, rec) == Append(his, rec)

\* a mutant of effective_max: a cap of 0
effective_max_zero(limit, maxd) == 0

\* effective_max_disables of a run
effective_max(limit, maxd) ==
    IF limit
    THEN (IF maxd < HardDisableCap THEN maxd ELSE HardDisableCap)
    ELSE NoDisableCap

\* a mutant of cap_reached: one disable too many
cap_reached_late(count, cap) == count > cap

\* disabled_count >= effective_max_disables
cap_reached(count, cap) == count >= cap

\* HTTP status of the platform's answer to a status request; anything but
\* 204, an exception included, is a failure
Responses == {"204", "500"}

\* a mutant of disable_banner: the response is not looked at
disable_banner_unchecked(dry, response) == TRUE

\* VkAdsApi.disable_banner: True in a dry run, else whether the platform
\* answered 204
disable_banner(dry, response) == IF dry THEN TRUE ELSE response = "204"

\* VkAdsApi.enable_banner
enable_banner(dry, response) == IF dry THEN TRUE ELSE response = "204"

\* a mutant of move_to_enabled: the record stays in disabled_records
move_to_enabled_no_pop(dis, en, bid) ==
    [disabled_records |-> dis,
     enabled_records  |-> [en EXCEPT ![bid] = "on"]]

\* disabled_records.pop(bid); enabled_records[bid] = rec
move_to_enabled(dis, en, bid) ==
    [disabled_records |-> [dis EXCEPT ![bid] = ""],
     enabled_records  |-> [en EXCEPT ![bid] = "on"]]

\* a mutant of move_to_disabled: the record stays in enabled_records
move_to_disabled_no_pop(dis, en, bid) ==
    [disabled_records |-> [dis EXCEPT ![bid] = "off"],
     enabled_records  |-> en]

\* disabled_records[bid] = rec; enabled_records.pop(bid)
move_to_disabled(dis, en, bid) ==
    [disabled_records |-> [dis EXCEPT ![bid] = "off"],
     enabled_records  |-> [en EXCEPT ![bid] = ""]]

\* the banners the platform resolves a campaign to (through its groups)
Campaigns == {10, 20}
campaign_banners(c) == IF c = 10 THEN {1} ELSE {}

\* a mutant of resolve_whitelist: a white list that resolves to nothing is
\* taken for no white list
resolve_whitelist_none_if_empty(wl) ==
    LET ids == UNION {campaign_banners(c) : c \in wl.campaign_ids} \cup wl.banner_ids
    IN IF ids = {} THEN NoWhitelist ELSE [given |-> TRUE, ids |-> ids]

\* whitelist_set: None without campaign ids and banner ids, else the banners
\* of the campaigns and the banner ids
resolve_whitelist(wl) ==
    IF wl.campaign_ids = {} /\ wl.banner_ids = {} THEN NoWhitelist
    ELSE [given |-> TRUE,
          ids |-> UNION {campaign_banners(c) : c \in wl.campaign_ids} \cup wl.banner_ids]

\* a mutant of resolve_blacklist: the campaigns of the black list are not
\* resolved
resolve_blacklist_direct_only(bl) == bl.banner_ids

\* blacklist_set
resolve_blacklist(bl) ==
    bl.banner_ids \cup UNION {campaign_banners(c) : c \in bl.campaign_ids}

\* a mutant of skipped_by_lists: the white list is not looked at
skipped_by_lists_black_only(bid) == bid \in blacklist_set

\* the white list and black list checks of both loops
skipped_by_lists(bid) ==
    \/ whitelist_set.given /\ bid \notin whitelist_set.ids
    \/ bid \in blacklist_set

\* a mutant of skipped_in_enable_loop: the ledger is not looked at
skipped_in_enable_loop_any(bid, dis) == skipped_by_lists(bid)

\* the enable loop passes over a banner that is not in disabled_records
skipped_in_enable_loop(bid, dis) == dis[bid] = "" \/ skipped_by_lists(bid)

\* filters.json of the run: disable at spend >= 300, enable at spend < 250
RunTemplates ==
    <<Template(1, ScopeOfAll, <<>>,
          <<Node("FILTER", "ALL", <<>>,
                 <<Rule("COST_RULE", 0, "SPENT", "GTE", 300, NoPeriod)>>,
                 SetState("DISABLE"))>>),
      Template(2, ScopeOfAll, <<>>,
          <<Node("FILTER", "ALL", <<>>,
                 <<Rule("COST_RULE", 0, "SPENT", "LT", 250, NoPeriod)>>,
                 SetState("ENABLE"))>>)>>

RunStatsInputs == {EmptyStats, Stats(250, 0, 0, 0, 0), Stats(350, 0, 0, 0, 0)}

NoStats == [p \in {AllTime} |-> <<>>]

\* the list files: <<white_list, black_list>>
ListInputs ==
    {<<ListFile({}, {1}), NoList>>, <<ListFile({10}, {}), NoList>>,
     <<ListFile({20}, {}), NoList>>, <<NoList, ListFile({}, {2})>>,
     <<NoList, ListFile({10}, {})>>, <<ListFile({}, {1}), ListFile({10}, {})>>}

\* ledger files that share no id
LedgerInputs ==
    {f \in [Banners -> {"", "off", "on"}] : TRUE}

PlatformInputs ==
    [status : [Banners -> {"active", "blocked", "absent"}],
     banner_stats : [Banners -> RunStatsInputs]]

Init ==
    /\ templates = RunTemplates
    /\ cabinet_id = "c1"
    /\ chain = <<>>
    /\ rule = NotADictRule
    /\ conditions = <<>>
    /\ stats_by_period = NoStats
    /\ income_store = IncomeStore([b \in Banners |-> 0], <<>>)
    /\ banner_objectives = [b \in Banners |-> ""]
    /\ today = 1
    /\ ret = NoRet
    /\ again = NoRet
    /\ pc = "idle"
    /\ max_disables = 1
    /\ \/ /\ dry_run \in BOOLEAN
          /\ ignore_manual_enabled_ads \in BOOLEAN
          /\ limit_disabled_banners_20 \in BOOLEAN
          /\ white_list = NoList
          /\ black_list = NoList
       \/ /\ dry_run = FALSE
          /\ ignore_manual_enabled_ads = FALSE
          /\ limit_disabled_banners_20 = TRUE
          /\ \E l \in ListInputs : white_list = l[1] /\ black_list = l[2]
    /\ \E pf \in PlatformInputs : status = pf.status /\ banner_stats = pf.banner_stats
    /\ \E f \in LedgerInputs :
          /\ disabled_file = save_disabled_records([b \in Banners |-> IF f[b] = "off" THEN "off" ELSE ""])
          /\ enabled_file = save_disabled_records([b \in Banners |-> IF f[b] = "on" THEN "on" ELSE ""])
    /\ history = <<>>
    /\ effective_max_disables = NoDisableCap
    /\ whitelist_set = NoWhitelist
    /\ blacklist_set = {}
    /\ active_ids = <<>>
    /\ blocked_ids = <<>>
    /\ todo = <<>>
    /\ disabled_records = NoRecords
    /\ enabled_records = NoRecords
    /\ disabled_count = 0
    /\ calls = <<>>
    /\ hist_start = 0
    /\ stopped_at_cap = FALSE
    /\ settled = FALSE
    /\ repeat = FALSE
    /\ runs = 0
    /\ OtherIdle

\* the decision of the run for banner bid
run_decision(bid) ==
    decide_action_for_banner(templates, cabinet_id, bid, stats_by_period,
                             income_store, banner_objectives).state

\* between two runs the platform changes: a banner is switched by hand,
\* appears, disappears, spends
PlatformChanges ==
    /\ pc = "idle"
    /\ runs < MaxRuns
    /\ \E b \in Banners, st \in {"active", "blocked", "absent"}, bs \in RunStatsInputs :
          /\ <<st, bs>> # <<status[b], banner_stats[b]>>
          /\ status' = [status EXCEPT ![b] = st]
          /\ banner_stats' = [banner_stats EXCEPT ![b] = bs]
    /\ settled' = FALSE
    /\ UNCHANGED <<evalVars, pc, cfgVars, otherVars, fileVars, localVars, calls, hist_start,
                   stopped_at_cap, repeat, runs>>

\* a request of the run as the properties see it; in a dry run no request
\* is made and the response is "dry"
Call(bid, action, response) ==
    [id |-> bid, action |-> action, response |-> IF dry_run THEN "dry" ELSE response]

\* process_cabinet up to the first loop: the platform's lists, the white
\* and black list, the early returns, the statistics, the ledgers, the cap
\* (status "both": the banner was switched off between the two list requests
\* and is in the active and in the blocked list)
StartRun ==
    /\ pc = "idle"
    /\ runs < MaxRuns
    /\ runs' = runs + 1
    /\ LET act == {b \in Banners : status[b] \in {"active", "both"}}
           blk == {b \in Banners : status[b] \in {"blocked", "both"}}
           wl  == resolve_whitelist(white_list)
       IN IF act \cup blk = {} \/ (wl.given /\ wl.ids = {})
          THEN UNCHANGED <<pc, localVars, stats_by_period, hist_start, repeat>>
          ELSE /\ active_ids' = SortedSeq(act)
               /\ blocked_ids' = SortedSeq(blk)
               /\ whitelist_set' = wl
               /\ blacklist_set' = resolve_blacklist(black_list)
               /\ stats_by_period' = [p \in {AllTime} |-> [b \in act \cup blk |-> banner_stats[b]]]
               /\ disabled_records' = load_disabled_records(disabled_file)
               /\ enabled_records' = load_disabled_records(enabled_file)
               /\ disabled_count' = 0
               /\ effective_max_disables' = effective_max(limit_disabled_banners_20, max_disables)
               /\ todo' = SortedSeq(act)
               /\ hist_start' = Len(history)
               /\ repeat' = settled
               /\ pc' = "disable"
    /\ UNCHANGED <<templates, cabinet_id, chain, rule, conditions, income_store,
                   banner_objectives, today, ret, again, cfgVars, otherVars, platformVars,
                   fileVars, calls, stopped_at_cap, settled>>

\* one pass of the loop over active_ids
DisableStep ==
    /\ pc = "disable"
    /\ todo # <<>>
    /\ LET bid == Head(todo) IN
       IF \/ (ignore_manual_enabled_ads /\ disabled_records[bid] # "")
          \/ skipped_by_lists(bid)
          \/ run_decision(bid) # "DISABLE"
       THEN /\ todo' = Tail(todo)
            /\ UNCHANGED <<pc, disabled_records, enabled_records, history, disabled_count,
                           status, calls, stopped_at_cap>>
       ELSE IF cap_reached(disabled_count, effective_max_disables)
       THEN /\ pc' = "enable"
            /\ todo' = blocked_ids
            /\ stopped_at_cap' = TRUE
            /\ UNCHANGED <<disabled_records, enabled_records, history, disabled_count,
                           status, calls>>
       ELSE \E response \in Responses :
            /\ calls' = Append(calls, Call(bid, "disable", response))
            /\ todo' = Tail(todo)
            /\ UNCHANGED <<pc, stopped_at_cap>>
            /\ IF ~disable_banner(dry_run, response)
               THEN UNCHANGED <<disabled_records, enabled_records, history,
                                disabled_count, status>>
               ELSE LET moved == move_to_disabled(disabled_records, enabled_records, bid) IN
                    /\ status' = IF ~dry_run /\ response = "204"
                                 THEN [status EXCEPT ![bid] = "blocked"] ELSE status
                    /\ disabled_count' = disabled_count + 1
                    /\ disabled_records' = moved.disabled_records
                    /\ enabled_records' = moved.enabled_records
                    /\ history' = append_history(history, make_banner_record(bid, "off"))
    /\ UNCHANGED <<evalVars, cfgVars, otherVars, banner_stats, disabled_file, enabled_file,
                   effective_max_disables, whitelist_set, blacklist_set, active_ids,
                   blocked_ids, hist_start, settled, repeat, runs>>

\* the loop over active_ids is exhausted
EndDisableLoop ==
    /\ pc = "disable"
    /\ todo = <<>>
    /\ pc' = "enable"
    /\ todo' = blocked_ids
    /\ UNCHANGED <<evalVars, cfgVars, otherVars, platformVars, fileVars, effective_max_disables,
                   whitelist_set, blacklist_set, active_ids, blocked_ids,
                   disabled_records, enabled_records, disabled_count, ghostVars, runs>>

\* one pass of the loop over blocked_ids
EnableStep ==
    /\ pc = "enable"
    /\ todo # <<>>
    /\ todo' = Tail(todo)
    /\ LET bid == Head(todo) IN
       IF \/ skipped_in_enable_loop(bid, disabled_records)
          \/ run_decision(bid) # "ENABLE"
       THEN UNCHANGED <<disabled_records, enabled_records, history, status, calls>>
       ELSE \E response \in Responses :
            /\ calls' = Append(calls, Call(bid, "enable", response))
            /\ IF ~enable_banner(dry_run, response)
               THEN UNCHANGED <<disabled_records, enabled_records, history, status>>
               ELSE LET moved == move_to_enabled(disabled_records, enabled_records, bid) IN
                    /\ status' = IF ~dry_run /\ response = "204"
                                 THEN [status EXCEPT ![bid] = "active"] ELSE status
                    /\ disabled_records' = moved.disabled_records
                    /\ enabled_records' = moved.enabled_records
                    /\ history' = append_history(history, make_banner_record(bid, "on"))
    /\ UNCHANGED <<evalVars, cfgVars, otherVars, pc, banner_stats, disabled_file, enabled_file,
                   effective_max_disables, whitelist_set, blacklist_set, active_ids,
                   blocked_ids, disabled_count, hist_start, stopped_at_cap, settled,
                   repeat, runs>>

\* both ledgers are written
SaveLedgers ==
    /\ pc = "enable"
    /\ todo = <<>>
    /\ disabled_file' = save_disabled_records(disabled_records)
    /\ enabled_file' = save_disabled_records(enabled_records)
    /\ pc' = "done"
    /\ UNCHANGED <<evalVars, cfgVars, otherVars, platformVars, history, localVars, ghostVars, runs>>

\* the run returns and its locals are gone
Return ==
    /\ pc = "done"
    /\ pc' = "idle"
    /\ stats_by_period' = NoStats
    /\ effective_max_disables' = NoDisableCap
    /\ whitelist_set' = NoWhitelist
    /\ blacklist_set' = {}
    /\ active_ids' = <<>>
    /\ blocked_ids' = <<>>
    /\ disabled_records' = NoRecords
    /\ enabled_records' = NoRecords
    /\ disabled_count' = 0
    /\ calls' = <<>>
    /\ hist_start' = 0
    /\ stopped_at_cap' = FALSE
    /\ repeat' = FALSE
    /\ settled' = (~stopped_at_cap /\ \A i \in 1..Len(calls) : calls[i].response # "500")
    /\ UNCHANGED <<templates, cabinet_id, chain, rule, conditions, income_store,
                   banner_objectives, today, ret, again, cfgVars, otherVars, platformVars,
                   fileVars, todo, runs>>

Next ==
    \/ StartRun \/ DisableStep \/ EndDisableLoop \/ EnableStep \/ SaveLedgers
    \/ Return \/ PlatformChanges

Spec == Init /\ [][Next]_vars

----------------------------------------------------------------------------
(* What the specification says a comparison and a rule are, written from   *)
(* its text: the properties below compare the code with these.             *)

\* the operator set {LT, LTE, EQ (1e-9 tolerance), GTE, GT}; anything else
\* does not hold (|x| / d < 1e-9 is written x <= (d - 1) \div 10^9)
Holds(a, op, b) ==
    \/ op = "LT"  /\ a.n * b.d < b.n * a.d
    \/ op = "LTE" /\ a.n * b.d <= b.n * a.d
    \/ op = "EQ"  /\ AbsNum(Minus(a, b)) <= (a.d * b.d - 1) \div EqTolInv
    \/ op = "GTE" /\ a.n * b.d >= b.n * a.d
    \/ op = "GT"  /\ a.n * b.d > b.n * a.d

\* the snapshot of banner 1 for the window of rule r
SnapshotOf(r) ==
    metric_value_from_stats(stats_lookup(stats_by_period, period_or_all_time(r.period), 1))

\* rule r matches on its own: spend of its window >= minSpend and the
\* comparison of its metric holds
MatchesOnItsOwn(r) ==
    /\ r.is_dict
    /\ r.type = "COST_RULE"
    /\ SnapshotOf(r)["SPENT"].n >= r.spentRub
    /\ r.metric \in MetricNames
    /\ Holds(SnapshotOf(r)[r.metric], or_default(r.op, "EQ"), Num(r.value))

ScenarioRule == Rule("COST_RULE", 300, "RESULT_COST", "GTE", 300, AllTime)

\* C9: a cost rule evaluated on its own matches exactly when the spend of its
\* window is at least minSpend and the comparison (metric value, operator,
\* threshold) holds; minSpend 300, conversion cost GTE 300 over ALL_TIME
\* matches spend 350, conversions 1, conversion cost 350, and does not match
\* when the spend is below 300.
CostRuleMatchesIffGateAndComparison ==
    ret.fn = "eval_cost_rule" =>
        /\ (rule.is_dict /\ rule.type = "COST_RULE") =>
               (ret.val.hit <=> MatchesOnItsOwn(rule))
        /\ (/\ rule = ScenarioRule
            /\ SnapshotOf(rule)["SPENT"] = Num(350)
            /\ SnapshotOf(rule)["RESULTS"] = Num(1)
            /\ SnapshotOf(rule)["RESULT_COST"] = Num(350)) => ret.val.hit
        /\ (rule = ScenarioRule /\ SnapshotOf(rule)["SPENT"].n < 300) => ~ret.val.hit

\* C9 witness: the scenario rule was evaluated on the scenario snapshot and hit
ScenarioRuleHit ==
    /\ ret.fn = "eval_cost_rule"
    /\ rule = ScenarioRule
    /\ stats_by_period[AllTime][1] = Stats(350, 0, 1, 0, 350)
    /\ ret.val.hit

\* a rule with metric CLICK_COST (or its alias CPC) / RESULT_COST (or CPA)
IsClickCostRule(r)  == r.is_dict /\ r.type = "COST_RULE" /\ r.metric \in {"CLICK_COST", "CPC"}
IsResultCostRule(r) == r.is_dict /\ r.type = "COST_RULE" /\ r.metric \in {"RESULT_COST", "CPA"}

\* some conversion-cost rule of the list compares true, its spend gate
\* ignored, over a window with conversions > 0
ConversionCostQualifies(rules) ==
    \E i \in 1..Len(rules) :
        /\ IsResultCostRule(rules[i])
        /\ SnapshotOf(rules[i])["RESULTS"].n > 0
        /\ Holds(SnapshotOf(rules[i])["RESULT_COST"], or_default(rules[i].op, "EQ"),
                 Num(rules[i].value))

GateOpen(node) ==
    \/ Len(node.conditions) = 0
    \/ \A i \in 1..Len(node.conditions) :
          eval_one_condition(node.conditions[i], 1, stats_by_period, income_store,
                             banner_objectives) # "fail"

\* C10: if some conversion-cost rule of a node compares true (spend gate
\* ignored) over a window with conversions > 0, every click-cost rule of the
\* node counts as satisfied whatever its own gate and comparison are, so an
\* ALL node of one satisfied conversion-cost rule and one click-cost rule
\* that fails on its own matches; otherwise a click-cost rule counts as it
\* does on its own.
CostPriorityShortcut ==
    ret.fn = "eval_filter_node" =>
        LET node == chain[1] IN
        /\ \A j \in 1..Len(node.rules) :
              IsClickCostRule(node.rules[j]) =>
                  IF ConversionCostQualifies(node.rules)
                  THEN ret.hits[j].hit
                  ELSE ret.hits[j].hit <=> MatchesOnItsOwn(node.rules[j])
        /\ (/\ node.mode = "ALL"
            /\ GateOpen(node)
            /\ Len(node.rules) = 2
            /\ \E i, j \in 1..2 :
                  /\ IsResultCostRule(node.rules[i])
                  /\ MatchesOnItsOwn(node.rules[i])
                  /\ SnapshotOf(node.rules[i])["RESULTS"].n > 0
                  /\ IsClickCostRule(node.rules[j])
                  /\ ~MatchesOnItsOwn(node.rules[j]))
           => (ret.val.matched_action /\ ret.val.node = 1 /\ ret.val.state = "DISABLE")

\* C10 witness: an ALL node of a satisfied conversion-cost rule and a
\* click-cost rule that fails on its own has matched
ShortcutNodeMatched ==
    /\ ret.fn = "eval_filter_node"
    /\ chain[1].mode = "ALL"
    /\ Len(chain[1].rules) = 2
    /\ IsResultCostRule(chain[1].rules[1])
    /\ MatchesOnItsOwn(chain[1].rules[1])
    /\ IsClickCostRule(chain[1].rules[2])
    /\ ~MatchesOnItsOwn(chain[1].rules[2])
    /\ ret.val.matched_action
    /\ ret.val.node = 1

\* a rule that is no COST_RULE, or names no known metric, or an operator
\* outside {LT, LTE, EQ, GTE, GT}
UnrecognizedRule(r) ==
    \/ ~r.is_dict
    \/ r.type # "COST_RULE"
    \/ r.metric \notin MetricNames
    \/ (r.op # "" /\ r.op \notin Ops)

\* C4: a rule whose type is not COST_RULE, whose metric is not recognized or
\* whose operator is unknown is never counted as satisfied, whatever the
\* snapshot and its sibling rules are.
UnrecognizedRuleNeverCounts ==
    ret.fn = "eval_filter_node" =>
        \A j \in 1..Len(chain[1].rules) :
            UnrecognizedRule(chain[1].rules[j]) => ~ret.hits[j].hit

\* an entry that is no condition object, or of a type other than SPENT,
\* INCOME, TARGET_ACTION, or an INCOME of an unknown mode, or a comparison
\* with an unknown operator
UnrecognizedCondition(c) ==
    \/ ~c.is_dict
    \/ c.type \notin {"SPENT", "INCOME", "TARGET_ACTION"}
    \/ (c.type = "INCOME" /\ c.mode # ""
           /\ c.mode \notin HasModes \cup HasNotModes \cup {"COMPARE", "COMPARE_SPEND"})
    \/ (c.type = "SPENT" /\ c.op # "" /\ c.op \notin Ops)
    \/ (c.type = "INCOME" /\ c.mode \in {"COMPARE", "COMPARE_SPEND"} /\ c.op \notin Ops)

\* C3: eval_conditions returns false for every list that holds at least one
\* malformed or unrecognized entry.
ConditionsFailClosed ==
    ret.fn = "eval_conditions" =>
        ((\E i \in 1..Len(conditions) : UnrecognizedCondition(conditions[i])) => ~ret.val)


----------------------------------------------------------------------------
(* What the specification says a chain and a template list are *)

IsDecided == ret.fn = "decide_action_for_banner"

\* a rule counts as satisfied in its node: a click-cost rule next to a
\* qualifying conversion-cost rule, or a rule that matches on its own
Counts(node, j) ==
    \/ IsClickCostRule(node.rules[j]) /\ ConversionCostQualifies(node.rules)
    \/ MatchesOnItsOwn(node.rules[j])

\* the rule set of the node matches under its mode; an empty one never does
RulesMatch(node) ==
    /\ Len(node.rules) > 0
    /\ IF node.mode = "ANY" THEN \E j \in 1..Len(node.rules) : Counts(node, j)
       ELSE \A j \in 1..Len(node.rules) : Counts(node, j)

\* the node qualifies: its gate conditions all hold (or it has none) and its
\* rule set matches
Qualifies(node) == node.type = "FILTER" /\ GateOpen(node) /\ RulesMatch(node)

\* position of the first node of the chain that qualifies, 0 if none does
FirstQualifying(ch) ==
    IF \E i \in 1..Len(ch) : Qualifies(ch[i])
    THEN CHOOSE i \in 1..Len(ch) : Qualifies(ch[i]) /\ \A k \in 1..(i - 1) : ~Qualifies(ch[k])
    ELSE 0

\* the scope lets cabinet_id in / keeps it out
ScopeAllows(t) ==
    \/ t.accountsScope.mode \in {"", "ALL"}
    \/ (t.accountsScope.mode = "SELECTED" /\ t.accountsScope.is_list
          /\ cabinet_id \in t.accountsScope.selected)
ScopeExcludes(t) == ~ScopeAllows(t)

SomeRootConditionFails(t) ==
    \E i \in 1..Len(t.conditions) :
        eval_one_condition(t.conditions[i], 1, stats_by_period, income_store,
                           banner_objectives) = "fail"

\* the node that decided, when a template decided
DecidingNode == templates[ret.val.tpl].child[ret.val.node]

PriorityOrder ==
    LET n == Len(templates)
        rank(i) == Cardinality({j \in 1..n :
                        \/ templates[j].priority < templates[i].priority
                        \/ (templates[j].priority = templates[i].priority /\ j < i)}) + 1
    IN [k \in 1..n |-> CHOOSE i \in 1..n : rank(i) = k]

\* no template of the document has a head node without rules under root
\* conditions (so that no decision is a direct root action)
NoRootAction ==
    \A i \in 1..Len(templates) :
        ~(Len(templates[i].conditions) > 0 /\ Len(templates[i].child) > 0
              /\ Len(templates[i].child[1].rules) = 0)

\* template i is in scope, passes its root conditions and has a node that
\* qualifies
HasOpinion(i) ==
    /\ ScopeAllows(templates[i])
    /\ ~SomeRootConditionFails(templates[i])
    /\ FirstQualifying(templates[i].child) # 0

\* C5 (for documents without direct root actions): if the first template, in
\* priority order, that is in scope, passes its root conditions and has a
\* qualifying node declares NOOP on that node, decide returns NOOP, by that
\* template, and consults no template that comes after it in that order.
NoopIsTerminal ==
    (IsDecided /\ NoRootAction) =>
        \A k \in 1..Len(templates) :
            LET i == PriorityOrder[k] IN
            (/\ HasOpinion(i)
             /\ \A m \in 1..(k - 1) : ~HasOpinion(PriorityOrder[m])
             /\ templates[i].child[FirstQualifying(templates[i].child)].action = SetState("NOOP"))
            => /\ ret.val.state = "NOOP"
               /\ ret.val.tpl = i
               /\ \A m \in (k + 1)..Len(templates) :
                     \A c \in 1..Len(ret.val.consulted) :
                         ret.val.consulted[c] # PriorityOrder[m]

\* template i alone yields a terminal decision
Yields(i) ==
    decide_action_for_banner(<<templates[i]>>, cabinet_id, 1, stats_by_period,
                             income_store, banner_objectives).tpl # 0

\* C6: templates are consulted in ascending order of priority, document
\* order among equals, priority 0 included; the decision is that of the
\* first template in this order that yields a terminal decision.
ConsultedInPriorityOrder ==
    IsDecided =>
        /\ \E k \in 0..Len(templates) : ret.val.consulted = SubSeq(PriorityOrder, 1, k)
        /\ \A k \in 1..Len(templates) :
              (Yields(PriorityOrder[k]) /\ \A m \in 1..(k - 1) : ~Yields(PriorityOrder[m]))
              => ret.val.tpl = PriorityOrder[k]

\* C7: a template whose scope excludes the cabinet, or one of whose root
\* conditions fails, contributes no decision; a consulted template in scope
\* with an empty root-condition list is not skipped: its chain is walked.
SkippedForScopeOrRootConditions ==
    IsDecided =>
        \A i \in 1..Len(templates) :
            /\ (ScopeExcludes(templates[i]) \/ SomeRootConditionFails(templates[i]))
                  => ret.val.tpl # i
            /\ (/\ \E k \in 1..Len(ret.val.consulted) : ret.val.consulted[k] = i
                /\ ScopeAllows(templates[i])
                /\ Len(templates[i].conditions) = 0
                /\ FirstQualifying(templates[i].child) # 0
                /\ valid_action(templates[i].child[FirstQualifying(templates[i].child)].action))
               => (ret.val.tpl = i /\ ret.val.node = FirstQualifying(templates[i].child))

\* C7 witness: a template out of scope was consulted and passed over, and a
\* template without root conditions decided by a node of its chain
PassedOverOutOfScope ==
    /\ IsDecided
    /\ Len(templates) = 2
    /\ ScopeExcludes(templates[ret.val.consulted[1]])
    /\ ret.val.tpl = ret.val.consulted[2]
    /\ Len(templates[ret.val.tpl].conditions) = 0
    /\ ret.val.via = "node"

\* C8 (its second clause): a node whose gate fails never contributes its
\* action, whatever its rules are.
ClosedGateNeverDecides ==
    (IsDecided /\ ret.val.tpl # 0) => GateOpen(DecidingNode)


\* the head node of template t is returned as a direct action: a non-empty
\* list of root conditions holds and the head is a FILTER without rules that
\* carries a SET_STATE action of a known state
HeadIsDirectAction(t) ==
    /\ Len(t.conditions) > 0
    /\ ~SomeRootConditionFails(t)
    /\ Len(t.child) > 0
    /\ t.child[1].type = "FILTER"
    /\ Len(t.child[1].rules) = 0
    /\ valid_action(t.child[1].action)

\* template t yields nothing: out of scope, or a root condition fails, or
\* no node of its chain qualifies
YieldsNothing(t) ==
    \/ ScopeExcludes(t)
    \/ SomeRootConditionFails(t)
    \/ FirstQualifying(t.child) = 0

DecideIsDeterministic ==
    again.fn = "decide_action_for_banner" =>
        /\ again.val.state = ret.val.state
        /\ again.val.reason = ret.val.reason

----------------------------------------------------------------------------
(* The two ledgers *)

InLedger(file, b) == \E i \in 1..Len(file) : file[i].id_banner = b

\* C1: starting from ledger files that share no id, after any sequence of
\* runs, whatever actions succeed or fail, no id is in both the disabled
\* and the enabled ledger, on disk and in the copies a run works on.
LedgersDisjoint ==
    \A b \in Banners :
        /\ ~(InLedger(disabled_file, b) /\ InLedger(enabled_file, b))
        /\ ~(disabled_records[b] # "" /\ enabled_records[b] # "")

\* C1 witness: a banner was disabled in one run and enabled in a later one,
\* and the files hold it in the enabled ledger only
DisabledThenEnabled ==
    /\ pc = "idle"
    /\ \E b \in Banners :
          /\ \E i, j \in 1..Len(history) :
                /\ i < j
                /\ history[i] = make_banner_record(b, "off")
                /\ history[j] = make_banner_record(b, "on")
          /\ InLedger(enabled_file, b)
          /\ ~InLedger(disabled_file, b)

----------------------------------------------------------------------------
(* The notification of a run: the end of process_cabinet. Times are whole  *)
(* minutes; the clock of the host is UTC.                                   *)

MaxTime == 2
MaxEvents == 2
IntervalInputs == {<<>>, <<0>>, <<1>>, <<2>>}

\* history stores daytime in UTC+4
HistoryOffsetMin == 240

\* now_str
now_str(now) == now + HistoryOffsetMin

\* parse_history_daytime_to_utc
parse_history_daytime_to_utc(daytime) == daytime - HistoryOffsetMin

\* the record append_history is given: make_banner_record with its daytime
history_record(bid, st, now) ==
    [id_banner |-> bid, status |-> st, daytime |-> now_str(now)]

\* a mutant of is_due_to_send: no throttle
is_due_to_send_always(last, every_min, now) == TRUE

\* is_due_to_send: last and every_min are <<>> for None
is_due_to_send(last, every_min, now) ==
    IF every_min = <<>> \/ every_min[1] <= 0 THEN TRUE
    ELSE IF last = <<>> THEN TRUE
    ELSE IF last[1] > now + 1 THEN TRUE
    ELSE now - last[1] >= every_min[1]

\* read_history_events_since
read_history_events_since(his, since) ==
    SelectSeq(his, LAMBDA e :
        since = <<>> \/ parse_history_daytime_to_utc(e.daytime) > since[1])

\* the keys of the dict last, in the order they were first set
RECURSIVE first_seen(_)
first_seen(events) ==
    IF events = <<>> THEN <<>>
    ELSE LET front == first_seen(SubSeq(events, 1, Len(events) - 1))
             bid   == events[Len(events)].id_banner
         IN IF \E i \in 1..Len(front) : front[i] = bid THEN front ELSE Append(front, bid)

\* last[bid]: the last event of bid
last_event(events, bid) ==
    events[CHOOSE i \in 1..Len(events) :
              /\ events[i].id_banner = bid
              /\ \A k \in (i + 1)..Len(events) : events[k].id_banner # bid]

\* sorted(values, key=event_utc), which keeps the order of equal keys
RECURSIVE sorted_by_event_utc(_)
sorted_by_event_utc(values) ==
    IF values = <<>> THEN <<>>
    ELSE LET front == sorted_by_event_utc(SubSeq(values, 1, Len(values) - 1))
             e     == values[Len(values)]
             n     == Cardinality({i \in 1..Len(front) : front[i].daytime <= e.daytime})
         IN SubSeq(front, 1, n) \o <<e>> \o SubSeq(front, n + 1, Len(front))

\* a mutant of reduce_latest_per_banner: every event is kept
reduce_latest_per_banner_keep_all(events) == sorted_by_event_utc(events)

\* reduce_latest_per_banner
reduce_latest_per_banner(events) ==
    LET keys == first_seen(events)
    IN sorted_by_event_utc([i \in 1..Len(keys) |-> last_event(events, keys[i])])

TgResponses == {"200", "500"}

\* tg_notify: whether the message reached Telegram
tg_notify(dry, response) == ~dry /\ response = "200"

InitNotify ==
    /\ templates = <<>>
    /\ cabinet_id = "c1"
    /\ chain = <<>>
    /\ rule = NotADictRule
    /\ conditions = <<>>
    /\ stats_by_period = NoStats
    /\ income_store = IncomeStore([b \in Banners |-> 0], <<>>)
    /\ banner_objectives = [b \in Banners |-> ""]
    /\ today = 1
    /\ ret = NoRet
    /\ again = NoRet
    /\ pc = "idle"
    /\ dry_run \in BOOLEAN
    /\ max_disables = 1
    /\ ignore_manual_enabled_ads = FALSE
    /\ limit_disabled_banners_20 = TRUE
    /\ white_list = NoList
    /\ black_list = NoList
    /\ status = [b \in Banners |-> "absent"]
    /\ banner_stats = [b \in Banners |-> EmptyStats]
    /\ disabled_file = <<>>
    /\ enabled_file = <<>>
    /\ history = <<>>
    /\ effective_max_disables = NoDisableCap
    /\ whitelist_set = NoWhitelist
    /\ blacklist_set = {}
    /\ active_ids = <<>>
    /\ blocked_ids = <<>>
    /\ todo = <<>>
    /\ disabled_records = NoRecords
    /\ enabled_records = NoRecords
    /\ disabled_count = 0
    /\ calls = <<>>
    /\ hist_start = 0
    /\ stopped_at_cap = FALSE
    /\ settled = FALSE
    /\ repeat = FALSE
    /\ runs = 0
    /\ now_utc = 0
    /\ tg_notify_every_min \in IntervalInputs
    /\ last_notify_utc \in {<<>>, <<0>>, <<MaxTime>>}
    /\ digests = <<>>
    /\ MainIdle
    /\ StoreIdle
    /\ IoIdle

\* the clock goes on
Tick ==
    /\ now_utc < MaxTime
    /\ now_utc' = now_utc + 1
    /\ UNCHANGED <<evalVars, pc, cfgVars, platformVars, fileVars, localVars, ghostVars,
                   runs, tg_notify_every_min, last_notify_utc, digests, mainVars,
                   storeVars, ioVars>>

\* a loop of the run records a transition in the history
RecordTransition ==
    /\ Len(history) < MaxEvents
    /\ \E bid \in Banners, st \in {"off", "on"} :
          history' = append_history(history, history_record(bid, st, now_utc))
    /\ UNCHANGED <<evalVars, pc, cfgVars, platformVars, disabled_file, enabled_file,
                   localVars, ghostVars, runs, notifyVars, mainVars, storeVars, ioVars>>

\* the notification block of process_cabinet, with its bot token and chat
\* id set and tg_notify_enabled
Notify ==
    /\ LET due    == is_due_to_send(last_notify_utc, tg_notify_every_min, now_utc)
           events == reduce_latest_per_banner(
                         read_history_events_since(history, last_notify_utc))
       IN /\ ret' = [fn |-> "is_due_to_send", val |-> due, last |-> last_notify_utc,
                     every |-> tg_notify_every_min, now |-> now_utc]
          /\ IF due /\ events # <<>>
             THEN \E response \in TgResponses :
                  /\ digests' = Append(digests,
                        [off       |-> SelectSeq(events, LAMBDA e : e.status = "off"),
                         on        |-> SelectSeq(events, LAMBDA e : e.status = "on"),
                         delivered |-> tg_notify(dry_run, response),
                         since     |-> last_notify_utc,
                         upto      |-> Len(history)])
                  /\ last_notify_utc' = <<now_utc>>
             ELSE UNCHANGED <<digests, last_notify_utc>>
    /\ UNCHANGED <<templates, cabinet_id, chain, rule, conditions, stats_by_period,
                   income_store, banner_objectives, today, again, pc, cfgVars,
                   platformVars, fileVars, localVars, ghostVars, runs, now_utc,
                   tg_notify_every_min, mainVars, storeVars, ioVars>>

NextNotify == Tick \/ RecordTransition \/ Notify
SpecNotify == InitNotify /\ [][NextNotify]_vars

----------------------------------------------------------------------------
(* One invocation: the loops of main over the users and their cabinets     *)

MaxCabinets == 2
UserIds == <<"u1", "u2">>

\* what loading a user's config, settings, lists, income and filters comes
\* to: it raises, or there are no active filters, or it succeeds
UserInputs ==
    [load : {"ok", "raises", "no_filters"},
     cabinets : [1..MaxCabinets -> [active : BOOLEAN, raises : BOOLEAN]]]

\* a mutant of cabinet_outcome: an exception of process_cabinet is not
\* caught in the loop over the cabinets
cabinet_outcome_uncaught(raises) == IF raises THEN "raise" ELSE "next"

\* the try around process_cabinet: the loop goes on whether it raised or not
cabinet_outcome(raises) == "next"

InitMain ==
    /\ templates = <<>>
    /\ cabinet_id = "c1"
    /\ chain = <<>>
    /\ rule = NotADictRule
    /\ conditions = <<>>
    /\ stats_by_period = NoStats
    /\ income_store = IncomeStore([b \in Banners |-> 0], <<>>)
    /\ banner_objectives = [b \in Banners |-> ""]
    /\ today = 1
    /\ ret = NoRet
    /\ again = NoRet
    /\ pc = "idle"
    /\ dry_run = FALSE
    /\ max_disables = 1
    /\ ignore_manual_enabled_ads = FALSE
    /\ limit_disabled_banners_20 = TRUE
    /\ white_list = NoList
    /\ black_list = NoList
    /\ status = [b \in Banners |-> "absent"]
    /\ banner_stats = [b \in Banners |-> EmptyStats]
    /\ disabled_file = <<>>
    /\ enabled_file = <<>>
    /\ history = <<>>
    /\ effective_max_disables = NoDisableCap
    /\ whitelist_set = NoWhitelist
    /\ blacklist_set = {}
    /\ active_ids = <<>>
    /\ blocked_ids = <<>>
    /\ todo = <<>>
    /\ disabled_records = NoRecords
    /\ enabled_records = NoRecords
    /\ disabled_count = 0
    /\ calls = <<>>
    /\ hist_start = 0
    /\ stopped_at_cap = FALSE
    /\ settled = FALSE
    /\ repeat = FALSE
    /\ runs = 0
    /\ NotifyIdle
    /\ users \in [1..Len(UserIds) -> UserInputs]
    /\ position = <<1, 0>>
    /\ attempted = {}
    /\ outcome = "running"
    /\ StoreIdle
    /\ IoIdle

mainUnchanged ==
    UNCHANGED <<evalVars, pc, cfgVars, platformVars, fileVars, localVars, ghostVars,
                runs, notifyVars, storeVars, ioVars, users>>

\* the head of the loop over the users: config, settings, lists, filters
LoadUser ==
    /\ outcome = "running"
    /\ position[1] <= Len(users)
    /\ position[2] = 0
    /\ position' = IF users[position[1]].load = "ok"
                   THEN <<position[1], 1>>
                   ELSE <<position[1] + 1, 0>>
    /\ UNCHANGED <<attempted, outcome>>
    /\ mainUnchanged

\* one pass of the loop over the cabinets of the user
ProcessCabinet ==
    /\ outcome = "running"
    /\ position[1] <= Len(users)
    /\ position[2] \in 1..MaxCabinets
    /\ LET cab == users[position[1]].cabinets[position[2]] IN
       IF ~cab.active
       THEN /\ position' = <<position[1], position[2] + 1>>
            /\ UNCHANGED attempted
       ELSE /\ attempted' = attempted \cup {position}
            /\ position' = IF cabinet_outcome(cab.raises) = "next"
                           THEN <<position[1], position[2] + 1>>
                           ELSE <<position[1] + 1, 0>>
    /\ UNCHANGED outcome
    /\ mainUnchanged

\* the cabinets of the user are exhausted
NextUser ==
    /\ outcome = "running"
    /\ position[1] <= Len(users)
    /\ position[2] > MaxCabinets
    /\ position' = <<position[1] + 1, 0>>
    /\ UNCHANGED <<attempted, outcome>>
    /\ mainUnchanged

\* the users are exhausted: main returns
MainReturns ==
    /\ outcome = "running"
    /\ position[1] > Len(users)
    /\ outcome' = "returned"
    /\ UNCHANGED <<attempted, position>>
    /\ mainUnchanged

NextMain == LoadUser \/ ProcessCabinet \/ NextUser \/ MainReturns
SpecMain == InitMain /\ [][NextMain]_vars /\ WF_vars(NextMain)

----------------------------------------------------------------------------
(* One write of a ledger file: save_disabled_records. The file on disk is  *)
(* the records written so far and whether the array is closed.             *)

\* a file that holds the whole array of records
WholeFile(records) == [text |-> records, closed |-> TRUE]

\* open(path, "w") leaves an empty file
TruncatedFile == [text |-> <<>>, closed |-> FALSE]

InitStore ==
    /\ templates = <<>>
    /\ cabinet_id = "c1"
    /\ chain = <<>>
    /\ rule = NotADictRule
    /\ conditions = <<>>
    /\ stats_by_period = NoStats
    /\ income_store = IncomeStore([b \in Banners |-> 0], <<>>)
    /\ banner_objectives = [b \in Banners |-> ""]
    /\ today = 1
    /\ ret = NoRet
    /\ again = NoRet
    /\ RunIdleButOther
    /\ NotifyIdle
    /\ MainIdle
    /\ IoIdle
    /\ \E old \in LedgerInputs, new \in LedgerInputs :
          /\ disk = WholeFile(save_disabled_records(old))
          /\ writer = [at |-> "open", old |-> save_disabled_records(old),
                       new |-> save_disabled_records(new)]

storeUnchanged ==
    UNCHANGED <<evalVars, pc, cfgVars, platformVars, fileVars, localVars, ghostVars,
                runs, notifyVars, mainVars, ioVars>>

\* open(path, "w"): the file is truncated
OpenForWriting ==
    /\ writer.at = "open"
    /\ disk' = TruncatedFile
    /\ writer' = [writer EXCEPT !.at = "dump"]
    /\ storeUnchanged

\* json.dump writes the next record of the array
DumpRecord ==
    /\ writer.at = "dump"
    /\ Len(disk.text) < Len(writer.new)
    /\ disk' = [disk EXCEPT !.text = Append(disk.text, writer.new[Len(disk.text) + 1])]
    /\ UNCHANGED writer
    /\ storeUnchanged

\* json.dump closes the array and the file is closed
CloseFile ==
    /\ writer.at = "dump"
    /\ Len(disk.text) = Len(writer.new)
    /\ disk' = [disk EXCEPT !.closed = TRUE]
    /\ writer' = [writer EXCEPT !.at = "done"]
    /\ storeUnchanged

\* the write raises (the exception is logged) or the process is stopped
WriteFails ==
    /\ writer.at \in {"open", "dump"}
    /\ writer' = [writer EXCEPT !.at = "failed"]
    /\ UNCHANGED disk
    /\ storeUnchanged

NextStore == OpenForWriting \/ DumpRecord \/ CloseFile \/ WriteFails
SpecStore == InitStore /\ [][NextStore]_vars

----------------------------------------------------------------------------
(* The statistics a run fetches for the periods of filters.json, and the   *)
(* decision it takes with them                                              *)

\* "n": None in a period that collect_periods_from_filters rebuilt
NullN == -1

\* obj with a key the engine does not define
WithUnknownKey(obj) ==
    [k \in DOMAIN obj \cup {"unknown"} |-> IF k = "unknown" THEN 1 ELSE obj[k]]

\* add_period: {"type": p.get("type"), "n": p.get("n")}
add_period(p) == Period(p.type, TRUE, IF p.has_n THEN p.n ELSE NullN)

\* the dicts under the keys "period" and "spendPeriod" that walk_node finds
periods_of_conditions(conds) ==
    UNION {{conds[i].period, conds[i].spendPeriod} : i \in 1..Len(conds)}

periods_of_node(node) ==
    periods_of_conditions(node.conditions)
        \cup {node.rules[i].period : i \in 1..Len(node.rules)}

periods_of_template(t) ==
    periods_of_conditions(t.conditions)
        \cup UNION {periods_of_node(t.child[i]) : i \in 1..Len(t.child)}

\* collect_periods_from_filters: the keys of the periods to fetch
collect_periods_from_filters(tpls) ==
    {AllTime} \cup
    {add_period(p) : p \in UNION {periods_of_template(tpls[i]) : i \in 1..Len(tpls)}
                                \ {NoPeriod}}

\* build_stats_cache on a platform where all the spend of a banner is of
\* today, so that every date range gives the ALL_TIME statistics
build_stats_cache(bstats, periods) ==
    [p \in periods |-> [b \in DOMAIN bstats |-> bstats[b]]]

\* the same objects with the keys of the engine only
known_period(p) == Period(p.type, p.has_n, p.n)

known_cond(c) ==
    IF c.is_dict
    THEN Cond(c.type, known_period(c.period), c.op, c.valueRub, c.mode, c.multiplier,
              known_period(c.spendPeriod), c.target)
    ELSE NotADictCond

known_rule(r) ==
    IF r.is_dict
    THEN Rule(r.type, r.spentRub, r.metric, r.op, r.value, known_period(r.period))
    ELSE NotADictRule

known_node(n) ==
    Node(n.type, n.mode, [i \in 1..Len(n.conditions) |-> known_cond(n.conditions[i])],
         [i \in 1..Len(n.rules) |-> known_rule(n.rules[i])],
         Action(n.action.type, n.action.state))

known_template(t) ==
    Template(t.priority,
             Scope(t.accountsScope.mode, t.accountsScope.is_list, t.accountsScope.selected),
             [i \in 1..Len(t.conditions) |-> known_cond(t.conditions[i])],
             [i \in 1..Len(t.child) |-> known_node(t.child[i])])

without_unknown_keys(tpls) == [i \in 1..Len(tpls) |-> known_template(tpls[i])]

KeyPeriodInputs == {AllTime, Today, Period("LAST_N_DAYS", TRUE, 7)}

KeyPlaces ==
    {"none", "template", "scope", "condition", "condition period", "node", "rule",
     "rule period", "action"}

\* one template: a root condition on the spend of period cp, a node with a
\* rule on the spend of period rp; the object at place has an unknown key
KeyTemplate(cp, rp, place) ==
    LET K(where, obj) == IF place = where THEN WithUnknownKey(obj) ELSE obj
        c == K("condition", Cond("SPENT", K("condition period", cp), "GTE", 300, "", 0,
                                 NoPeriod, ""))
        r == K("rule", Rule("COST_RULE", 0, "SPENT", "GTE", 300, K("rule period", rp)))
        n == K("node", Node("FILTER", "ALL", <<>>, <<r>>, K("action", SetState("DISABLE"))))
    IN K("template", Template(1, K("scope", ScopeOfAll), <<c>>, <<n>>))

KeyTemplateInputs ==
    {<<KeyTemplate(cp, rp, place)>> :
        cp \in KeyPeriodInputs, rp \in KeyPeriodInputs, place \in KeyPlaces}

InitKeys ==
    /\ templates \in KeyTemplateInputs
    /\ cabinet_id = "c1"
    /\ chain = <<>>
    /\ rule = NotADictRule
    /\ conditions = <<>>
    /\ stats_by_period = NoStats
    /\ income_store = IncomeStore([b \in Banners |-> 0], <<>>)
    /\ banner_objectives = [b \in Banners |-> ""]
    /\ today = 1
    /\ ret = NoRet
    /\ again = NoRet
    /\ pc = "idle"
    /\ dry_run = FALSE
    /\ max_disables = 1
    /\ ignore_manual_enabled_ads = FALSE
    /\ limit_disabled_banners_20 = TRUE
    /\ white_list = NoList
    /\ black_list = NoList
    /\ status = [b \in Banners |-> "active"]
    /\ banner_stats \in [Banners -> RunStatsInputs]
    /\ disabled_file = <<>>
    /\ enabled_file = <<>>
    /\ history = <<>>
    /\ effective_max_disables = NoDisableCap
    /\ whitelist_set = NoWhitelist
    /\ blacklist_set = {}
    /\ active_ids = <<>>
    /\ blocked_ids = <<>>
    /\ todo = <<>>
    /\ disabled_records = NoRecords
    /\ enabled_records = NoRecords
    /\ disabled_count = 0
    /\ calls = <<>>
    /\ hist_start = 0
    /\ stopped_at_cap = FALSE
    /\ settled = FALSE
    /\ repeat = FALSE
    /\ runs = 0
    /\ OtherIdle

\* the run fetches the statistics of the periods of the filters and decides
\* for banner 1; again is the decision it takes when the filters hold the
\* keys of the engine only
FetchAndDecide ==
    /\ ret = NoRet
    /\ LET fetched == build_stats_cache(banner_stats, collect_periods_from_filters(templates))
           plain   == without_unknown_keys(templates)
       IN /\ stats_by_period' = fetched
          /\ ret' = [fn  |-> "decide_action_for_banner",
                     val |-> decide_action_for_banner(templates, cabinet_id, 1, fetched,
                                 income_store, banner_objectives)]
          /\ again' = [fn  |-> "decide_action_for_banner",
                       val |-> decide_action_for_banner(plain, cabinet_id, 1,
                                   build_stats_cache(banner_stats,
                                       collect_periods_from_filters(plain)),
                                   income_store, banner_objectives)]
    /\ UNCHANGED <<templates, cabinet_id, chain, rule, conditions, income_store,
                   banner_objectives, today, runVars>>

NextKeys == FetchAndDecide
SpecKeys == InitKeys /\ [][NextKeys]_vars

----------------------------------------------------------------------------
(* The income file: load_income_store, and the days of a window           *)

MaxEntries == 3   \* entries of the income file

\* the parsed income JSON; is_list = FALSE is a document that is no list
IncomeFile(is_list, entries) == [is_list |-> is_list, entries |-> entries]

\* an entry of the list; is_dict = FALSE is an entry that is no JSON object,
\* day = 0 an absent or empty "day", data_is_dict = FALSE a "data" that is no
\* object; data maps banner ids to <<amount>>, or to <<>> where float(val)
\* raises
Entry(day, data) == [is_dict |-> TRUE, day |-> day, data_is_dict |-> TRUE, data |-> data]
NotADictEntry == [is_dict |-> FALSE, day |-> 0, data_is_dict |-> FALSE, data |-> <<>>]
NotADictData(day) == [is_dict |-> TRUE, day |-> day, data_is_dict |-> FALSE, data |-> <<>>]

EmptyIncomeStore == IncomeStore(<<>>, <<>>)

\* the inner loop: every amount of data that parses is added to the map
add_amounts(map, data) ==
    LET parsed == {b \in DOMAIN data : data[b] # <<>>}
    IN [b \in (DOMAIN map) \cup parsed |->
           (IF b \in DOMAIN map THEN map[b] ELSE 0)
           + (IF b \in parsed THEN data[b][1] ELSE 0)]

\* by_day[day_str] = day_map
put_day(by_day, day, day_map) ==
    [d \in (DOMAIN by_day) \cup {day} |-> IF d = day THEN day_map ELSE by_day[d]]

\* a mutant of day_map_of: the day starts from an empty map every time
day_map_of_fresh(by_day, day) == <<>>

\* by_day.get(day_str, {})
day_map_of(by_day, day) == IF day \in DOMAIN by_day THEN by_day[day] ELSE <<>>

\* the loop over the entries from position i on
RECURSIVE load_entries(_, _, _)
load_entries(entries, i, store) ==
    IF i > Len(entries) THEN store
    ELSE LET e == entries[i]
         IN IF e.day = 0 \/ ~e.data_is_dict
            THEN load_entries(entries, i + 1, store)
            ELSE load_entries(entries, i + 1,
                    IncomeStore(add_amounts(store.total, e.data),
                                put_day(store.by_day, e.day,
                                        add_amounts(day_map_of(store.by_day, e.day),
                                                    e.data))))

\* entry.get raises on an entry that is no object, and the except clause
\* returns the empty store
load_income_store(file) ==
    IF ~file.is_list THEN EmptyIncomeStore
    ELSE IF \E i \in 1..Len(file.entries) : ~file.entries[i].is_dict
         THEN EmptyIncomeStore
    ELSE load_entries(file.entries, 1, EmptyIncomeStore)

\* None is <<>>, else <<date_from, date_to>>
daterange_from_period(period) ==
    CASE period.type = "TODAY"       -> <<today, today>>
      [] period.type = "YESTERDAY"   -> <<today - 1, today - 1>>
      [] period.type = "LAST_N_DAYS" ->
            LET n == IF period.has_n /\ period.n > 1 THEN period.n ELSE 1
            IN <<today - (n - 1), today>>
      [] OTHER                       -> <<>>

DataInputs == {(1 :> <<100>>) @@ (2 :> <<>>), (1 :> <<50>>) @@ (2 :> <<30>>)}

EntryInputs ==
    {Entry(day, data) : day \in 0..MaxDay, data \in DataInputs}
    \cup {NotADictEntry, NotADictData(1)}

IncomeFileInputs ==
    {IncomeFile(TRUE, entries) : entries \in SeqsUpTo(EntryInputs, MaxEntries)}
    \cup {IncomeFile(FALSE, <<>>)}

WindowInputs ==
    {Today, Period("YESTERDAY", FALSE, 0), Period("LAST_N_DAYS", FALSE, 0)}
    \cup {Period("LAST_N_DAYS", TRUE, n) : n \in {NullN} \cup 0..(MaxDay + 1)}

InitIncome ==
    /\ RunIdleButOther
    /\ NotifyIdle
    /\ MainIdle
    /\ StoreIdle
    /\ income_file \in IncomeFileInputs
    /\ server = <<>>
    /\ attempt = 0
    /\ last_exc = <<>>
    /\ templates = <<>>
    /\ cabinet_id = "c1"
    /\ chain = <<>>
    /\ rule = NotADictRule
    /\ \E p \in WindowInputs :
          conditions = <<Cond("INCOME", p, "", 0, "HAS", 0, NoPeriod, "")>>
    /\ stats_by_period = NoStats
    /\ income_store = EmptyIncomeStore
    /\ banner_objectives = [b \in Banners |-> ""]
    /\ today \in 1..MaxDay
    /\ ret = NoRet
    /\ again = NoRet

incomeUnchanged ==
    UNCHANGED <<templates, cabinet_id, chain, rule, conditions, stats_by_period,
                banner_objectives, today, income_file, server, attempt, last_exc,
                pc, cfgVars, platformVars, fileVars, localVars, ghostVars, runs,
                notifyVars, mainVars, storeVars>>

\* main: income_store = load_income_store(income_path)
LoadIncome ==
    /\ again.fn = ""
    /\ income_store' = load_income_store(income_file)
    /\ again' = [fn |-> "load_income_store", val |-> TRUE]
    /\ ret' = ret
    /\ incomeUnchanged

\* the income of both banners over the window of the condition, and the
\* date range the statistics are fetched for
CallIncomeForPeriod ==
    /\ again.fn = "load_income_store"
    /\ ret.fn = ""
    /\ ret' = [fn    |-> "income_for_period",
               val   |-> [b \in Banners |->
                             income_for_period(income_store, b, conditions[1].period)],
               range |-> daterange_from_period(conditions[1].period)]
    /\ UNCHANGED <<income_store, again>>
    /\ incomeUnchanged

NextIncome == LoadIncome \/ CallIncomeForPeriod
SpecIncome == InitIncome /\ [][NextIncome]_vars

----------------------------------------------------------------------------
(* A run over lists that share a banner, with filters on today's income   *)

\* filters.json: disable without income today, enable with income today
DayTemplates ==
    <<Template(1, ScopeOfAll,
               <<Cond("INCOME", Today, "", 0, "HAS_NOT", 0, NoPeriod, "")>>,
               <<Node("FILTER", "ALL", <<>>, <<>>, SetState("DISABLE"))>>),
      Template(2, ScopeOfAll,
               <<Cond("INCOME", Today, "", 0, "HAS", 0, NoPeriod, "")>>,
               <<Node("FILTER", "ALL", <<>>, <<>>, SetState("ENABLE"))>>)>>

InitTwoLists ==
    /\ templates = DayTemplates
    /\ cabinet_id = "c1"
    /\ chain = <<>>
    /\ rule = NotADictRule
    /\ conditions = <<>>
    /\ stats_by_period = NoStats
    /\ income_store \in DayIncomeInputs
    /\ banner_objectives = [b \in Banners |-> ""]
    /\ today \in 1..MaxDay
    /\ ret = NoRet
    /\ again = NoRet
    /\ pc = "idle"
    /\ dry_run = FALSE
    /\ max_disables = 1
    /\ ignore_manual_enabled_ads = FALSE
    /\ limit_disabled_banners_20 = TRUE
    /\ white_list = NoList
    /\ black_list = NoList
    /\ status \in [Banners -> {"active", "blocked", "both", "absent"}]
    /\ banner_stats = [b \in Banners |-> EmptyStats]
    /\ history = <<>>
    /\ effective_max_disables = NoDisableCap
    /\ whitelist_set = NoWhitelist
    /\ blacklist_set = {}
    /\ active_ids = <<>>
    /\ blocked_ids = <<>>
    /\ todo = <<>>
    /\ disabled_records = NoRecords
    /\ enabled_records = NoRecords
    /\ disabled_count = 0
    /\ calls = <<>>
    /\ hist_start = 0
    /\ stopped_at_cap = FALSE
    /\ settled = FALSE
    /\ repeat = FALSE
    /\ runs = 0
    /\ OtherIdle
    /\ \E f \in LedgerInputs :
          /\ disabled_file = save_disabled_records([b \in Banners |-> IF f[b] = "off" THEN "off" ELSE ""])
          /\ enabled_file = save_disabled_records([b \in Banners |-> IF f[b] = "on" THEN "on" ELSE ""])

\* the date changes while the run is in one of its loops
DateChanges ==
    /\ pc \in {"disable", "enable"}
    /\ today < MaxDay
    /\ today' = today + 1
    /\ UNCHANGED <<templates, cabinet_id, chain, rule, conditions, stats_by_period,
                   income_store, banner_objectives, ret, again, runVars>>

NextTwoLists ==
    \/ StartRun \/ DisableStep \/ EndDisableLoop \/ EnableStep \/ SaveLedgers
    \/ Return \/ DateChanges

SpecTwoLists == InitTwoLists /\ [][NextTwoLists]_vars

----------------------------------------------------------------------------
(* Runs that an exception ends, from empty ledgers                          *)

InitAbort ==
    /\ Init
    /\ disabled_file = <<>>
    /\ enabled_file = <<>>

\* an exception leaves process_cabinet while a loop is at a banner (int() of
\* its ad_group_id, a failed request for its name): main catches it, the
\* ledgers are not written and the locals of the run are gone
RunRaises ==
    /\ pc \in {"disable", "enable"}
    /\ todo # <<>>
    /\ pc' = "idle"
    /\ stats_by_period' = NoStats
    /\ effective_max_disables' = NoDisableCap
    /\ whitelist_set' = NoWhitelist
    /\ blacklist_set' = {}
    /\ active_ids' = <<>>
    /\ blocked_ids' = <<>>
    /\ todo' = <<>>
    /\ disabled_records' = NoRecords
    /\ enabled_records' = NoRecords
    /\ disabled_count' = 0
    /\ calls' = <<>>
    /\ hist_start' = 0
    /\ stopped_at_cap' = FALSE
    /\ repeat' = FALSE
    /\ settled' = FALSE
    /\ UNCHANGED <<templates, cabinet_id, chain, rule, conditions, income_store,
                   banner_objectives, today, ret, again, cfgVars, otherVars, platformVars,
                   fileVars, runs>>

NextAbort ==
    \/ StartRun \/ DisableStep \/ EndDisableLoop \/ EnableStep \/ SaveLedgers
    \/ Return \/ PlatformChanges \/ RunRaises

SpecAbort == InitAbort /\ [][NextAbort]_vars

----------------------------------------------------------------------------
(* Runs without end over a platform nobody else changes                    *)

\* no dry run, a cap of 1, no lists; banners that spent nothing or 350; at
\* most banner 1 in the disabled ledger
InitLive ==
    /\ Init
    /\ ~dry_run
    /\ limit_disabled_banners_20
    /\ white_list = NoList
    /\ black_list = NoList
    /\ enabled_file = <<>>
    /\ ~InLedger(disabled_file, 2)
    /\ \A b \in Banners :
          /\ status[b] \in {"active", "blocked"}
          /\ banner_stats[b] \in {EmptyStats, Stats(350, 0, 0, 0, 0)}

\* runs keep occurring: the count of runs, which MaxRuns bounds, starts over
MoreRuns ==
    /\ pc = "idle"
    /\ runs = MaxRuns
    /\ runs' = 0
    /\ UNCHANGED <<evalVars, pc, cfgVars, platformVars, fileVars, localVars, ghostVars,
                   otherVars>>

\* the run makes a suppression request for b that the platform carries out
Suppresses(b) ==
    /\ pc = "disable"
    /\ todo # <<>>
    /\ Head(todo) = b
    /\ status[b] = "active"
    /\ DisableStep
    /\ status'[b] = "blocked"

NextLive ==
    \/ StartRun \/ DisableStep \/ EndDisableLoop \/ EnableStep \/ SaveLedgers
    \/ Return \/ MoreRuns

\* every run goes on to its end and is followed by another one, and a
\* request that is made again and again is carried out at some time
SpecLive ==
    /\ InitLive
    /\ [][NextLive]_vars
    /\ WF_vars(NextLive)
    /\ \A b \in Banners : SF_vars(Suppresses(b))

----------------------------------------------------------------------------
(* decide_action_for_banner on a template whose head node has an action    *)
(* that is missing or invalid                                               *)

\* a missing action (or one that is no object), a type that is not
\* SET_STATE, a state that is none of the three, and valid ones
ActionInputs ==
    {Action("", ""), Action("OTHER", "DISABLE"), SetState("PAUSE"),
     SetState("DISABLE"), SetState(""), SetState("NOOP")}

\* template 1: a head node with one rule and any action, then a node that
\* matches every banner; template 2, next by priority: one node with one rule
ActionTemplateInputs ==
    {<<Template(1, ScopeOfAll, conds,
                <<Node("FILTER", mode, <<>>, <<r>>, head),
                  Node("FILTER", "ALL", <<>>, <<AnySpend>>, SetState(second))>>),
       Template(2, ScopeOfAll, <<>>,
                <<Node("FILTER", "ALL", <<>>, <<r2>>, SetState(other))>>)>> :
        conds \in {<<>>, <<SpentAtLeast300>>}, mode \in {"ALL", "ANY"},
        r \in {AnySpend, ResultCostAtLeast300}, head \in ActionInputs,
        second \in {"DISABLE", "ENABLE"}, r2 \in {AnySpend, ResultCostAtLeast300},
        other \in States}

InitAction ==
    /\ RunIdle
    /\ templates \in ActionTemplateInputs
    /\ cabinet_id = "c1"
    /\ chain = <<>>
    /\ rule = NotADictRule
    /\ conditions = <<>>
    /\ \E a \in {EmptyStats, Stats(350, 0, 1, 0, 0)} :
          stats_by_period = StatsByPeriod(a, EmptyStats)
    /\ income_store = NoIncome
    /\ banner_objectives = [b \in {1} |-> ""]
    /\ today = 1
    /\ ret = NoRet
    /\ again = NoRet

NextAction == CallDecide
SpecAction == InitAction /\ [][NextAction]_vars

----------------------------------------------------------------------------
(* One request with retries: req_with_retry                                *)

RETRY_COUNT == 3

\* what the server does with an attempt: an answer below 400, an answer of
\* 400 or more, 429 with a Retry-After that int() reads, 429 with one that
\* int() rejects, no answer (requests.request raises)
Answers == {"200", "500", "429", "429 bad Retry-After", "timeout"}

\* the exception the try block raises on the answer, "" if none
raised_by(answer) ==
    CASE answer = "500"                 -> "HTTPError"
      [] answer = "429 bad Retry-After" -> "ValueError"
      [] answer = "timeout"             -> "Timeout"
      [] OTHER                          -> ""

Returns(code, n)  == [kind |-> "returns", what |-> code, attempts |-> n]
Raises(error, n)  == [kind |-> "raises", what |-> error, attempts |-> n]

InitRetry ==
    /\ EvalIdle
    /\ stats_by_period = NoStats
    /\ RunIdleButOther
    /\ NotifyIdle
    /\ MainIdle
    /\ StoreIdle
    /\ income_file = <<>>
    /\ server \in [1..RETRY_COUNT -> Answers]
    /\ attempt = 0
    /\ last_exc = <<>>

retryUnchanged ==
    UNCHANGED <<templates, cabinet_id, chain, rule, conditions, stats_by_period,
                income_store, banner_objectives, today, again, pc, cfgVars,
                platformVars, fileVars, localVars, ghostVars, runs, notifyVars,
                mainVars, storeVars, income_file, server>>

\* one pass of the loop over range(1, RETRY_COUNT + 1)
Attempt ==
    /\ ret.fn = ""
    /\ attempt < RETRY_COUNT
    /\ attempt' = attempt + 1
    /\ LET answer == server[attempt + 1] IN
       CASE answer = "200" ->
               /\ ret' = [fn |-> "req_with_retry", val |-> Returns(answer, attempt + 1)]
               /\ UNCHANGED last_exc
         [] answer = "429" ->
               UNCHANGED <<ret, last_exc>>
         [] OTHER ->
               /\ last_exc' = <<[attempt |-> attempt + 1, error |-> raised_by(answer)]>>
               /\ UNCHANGED ret
    /\ retryUnchanged

\* the loop is exhausted: assert last_exc is not None; raise last_exc.  The
\* assert raises AssertionError; where asserts are compiled out (python -O),
\* raise None raises TypeError
LoopExhausted ==
    /\ ret.fn = ""
    /\ attempt = RETRY_COUNT
    /\ \E error \in IF last_exc = <<>> THEN {"AssertionError", "TypeError"}
                    ELSE {last_exc[1].error} :
          ret' = [fn |-> "req_with_retry", val |-> Raises(error, attempt)]
    /\ UNCHANGED <<attempt, last_exc>>
    /\ retryUnchanged

NextRetry == Attempt \/ LoopExhausted
SpecRetry == InitRetry /\ [][NextRetry]_vars

----------------------------------------------------------------------------
(* One run and its requests *)

InRun == pc \in {"disable", "enable", "done"}

\* the status the ledger file holds for b, "" if none
FileStatus(file, b) ==
    IF InLedger(file, b)
    THEN file[CHOOSE i \in 1..Len(file) :
                /\ file[i].id_banner = b
                /\ \A k \in (i + 1)..Len(file) : file[k].id_banner # b].status
    ELSE ""

\* the history entries the run under way appended for b
NewEntries(b) == {i \in (hist_start + 1)..Len(history) : history[i].id_banner = b}

Listed(ids, b) == \E i \in 1..Len(ids) : ids[i] = b

Requested(b) == \E i \in 1..Len(calls) : calls[i].id = b

\* the step makes a request
Requests(action, response) ==
    /\ Len(calls') = Len(calls) + 1
    /\ calls'[Len(calls')].action = action
    /\ calls'[Len(calls')].response = response

\* the step leaves what the run holds of b, and the history, as they are
Untouched(b) ==
    /\ disabled_records'[b] = disabled_records[b]
    /\ enabled_records'[b] = enabled_records[b]
    /\ history' = history
    /\ calls' = calls

\* C13: when the suppression request of a run for an active unit succeeds,
\* then at the end of the run the disabled ledger holds the unit with
\* status off, the enabled ledger does not hold it, and the run appended
\* exactly one history entry for it, with status off.
SuccessfulSuppression ==
    pc = "done" =>
        \A i \in 1..Len(calls) :
            (calls[i].action = "disable" /\ calls[i].response = "204") =>
                LET b == calls[i].id IN
                /\ FileStatus(disabled_file, b) = "off"
                /\ ~InLedger(enabled_file, b)
                /\ Cardinality(NewEntries(b)) = 1
                /\ \A k \in NewEntries(b) : history[k].status = "off"

\* C13 witness: a unit that an earlier run had restored was suppressed, and
\* the run is at its end
SuppressedAfterRestored ==
    /\ pc = "done"
    /\ \E i \in 1..Len(calls) :
          /\ calls[i].action = "disable"
          /\ calls[i].response = "204"
          /\ \E k \in 1..hist_start : history[k] = make_banner_record(calls[i].id, "on")

\* C14: when a suppression or restoration request fails, the run changes
\* neither ledger for the unit and appends no history entry for it, goes on
\* with the next unit of the loop, and leaves the unit as the platform has
\* it, so that it is a candidate again in the next run.
CollaboratorFailure ==
    /\ [](InRun =>
            \A i \in 1..Len(calls) :
                calls[i].response = "500" =>
                    /\ NewEntries(calls[i].id) = {}
                    /\ pc # "done" =>
                          /\ disabled_records[calls[i].id] = FileStatus(disabled_file, calls[i].id)
                          /\ enabled_records[calls[i].id] = FileStatus(enabled_file, calls[i].id))
    /\ [][(pc = "enable" /\ pc' = "done") =>
            \A i \in 1..Len(calls) :
                calls[i].response = "500" =>
                    /\ FileStatus(disabled_file', calls[i].id) = FileStatus(disabled_file, calls[i].id)
                    /\ FileStatus(enabled_file', calls[i].id) = FileStatus(enabled_file, calls[i].id)]_vars
    /\ [][(Requests("disable", "500") \/ Requests("enable", "500")) =>
            /\ pc' = pc
            /\ todo' = Tail(todo)
            /\ status' = status]_vars

\* C14 witness: the request for one unit failed, the run went on and
\* suppressed the next one
WentOnAfterFailure ==
    /\ pc = "done"
    /\ Len(calls) = 2
    /\ calls[1].response = "500"
    /\ calls[2].response = "204"
    /\ FileStatus(disabled_file, calls[2].id) = "off"

\* C15: when the restoration request of a run for a blocked unit of the
\* disabled ledger succeeds, then at the end of the run the disabled ledger
\* does not hold the unit, the enabled ledger holds it with status on, and
\* the run appended exactly one history entry for it, with status on.
SuccessfulRestoration ==
    pc = "done" =>
        \A i \in 1..Len(calls) :
            (calls[i].action = "enable" /\ calls[i].response = "204") =>
                LET b == calls[i].id IN
                /\ ~InLedger(disabled_file, b)
                /\ FileStatus(enabled_file, b) = "on"
                /\ Cardinality(NewEntries(b)) = 1
                /\ \A k \in NewEntries(b) : history[k].status = "on"

\* C15 witness: a unit was restored and the run is at its end
RestoredAtEndOfRun ==
    /\ pc = "done"
    /\ \E i \in 1..Len(calls) :
          /\ calls[i].action = "enable"
          /\ calls[i].response = "204"
          /\ status[calls[i].id] = "active"

\* C16: a restoration request is made only for a unit the platform lists as
\* blocked and that is in the disabled ledger, a suppression request only
\* for a unit the platform lists as active; an ENABLE decision for an
\* active unit or for a unit that is not in the disabled ledger, and a
\* DISABLE decision for a blocked unit, make no request and change neither
\* ledger nor the history.
ActionPreconditions ==
    /\ [][\A r \in Responses \cup {"dry"} :
            /\ Requests("enable", r) =>
                  /\ Listed(blocked_ids, calls'[Len(calls')].id)
                  /\ disabled_records[calls'[Len(calls')].id] # ""
            /\ Requests("disable", r) =>
                  Listed(active_ids, calls'[Len(calls')].id)]_vars
    /\ [][(pc = "disable" /\ todo # <<>> /\ run_decision(Head(todo)) = "ENABLE")
            => Untouched(Head(todo))]_vars
    /\ [][(/\ pc = "enable"
           /\ todo # <<>>
           /\ \/ run_decision(Head(todo)) = "DISABLE"
              \/ disabled_records[Head(todo)] = "")
            => Untouched(Head(todo))]_vars

\* C16 witness: the enable loop has passed a blocked unit whose decision is
\* ENABLE and that is not in the disabled ledger, without a request
PassedNeverSuppressed ==
    /\ pc = "enable"
    /\ \E b \in Banners :
          /\ Listed(blocked_ids, b)
          /\ ~Listed(todo, b)
          /\ run_decision(b) = "ENABLE"
          /\ ~InLedger(disabled_file, b)
          /\ ~Requested(b)
          /\ disabled_records[b] = ""
          /\ enabled_records[b] = FileStatus(enabled_file, b)

\* the suppressions of the run under way
Suppressions ==
    {i \in 1..Len(calls) :
        calls[i].action = "disable" /\ calls[i].response \in {"204", "dry"}}

\* C17: in one run the number of units suppressed never exceeds the cap of
\* the run; once the cap is reached no suppression request is made in that
\* run and the remaining candidates get no ledger entry and no history
\* entry; nothing is kept of a skipped candidate, so the next run evaluates
\* it again.
RunCap ==
    /\ [](InRun =>
            /\ Cardinality(Suppressions) = disabled_count
            /\ disabled_count <= effective_max_disables)
    /\ [][(pc = "disable" /\ disabled_count >= effective_max_disables) =>
            /\ calls' = calls
            /\ history' = history
            /\ disabled_records' = disabled_records
            /\ enabled_records' = enabled_records
            /\ status' = status]_vars
    /\ [][(InRun /\ stopped_at_cap) =>
            \A i \in 1..Len(calls') : calls'[i].action = "disable" => i <= Len(calls)]_vars

\* C17 witness: with cap 1 and two candidates, the first was suppressed and
\* the second left alone
SecondCandidateSkipped ==
    /\ pc = "done"
    /\ stopped_at_cap
    /\ effective_max_disables = 1
    /\ Len(calls) = 1
    /\ calls[1] = [id |-> 1, action |-> "disable", response |-> "204"]
    /\ FileStatus(disabled_file, 1) = "off"
    /\ status[2] = "active"
    /\ run_decision(2) = "DISABLE"
    /\ ~InLedger(disabled_file, 2)
    /\ NewEntries(2) = {}

\* C18: whatever the settings are, one run suppresses at most max_disables
\* units.
MaxDisablesIsTheCap == InRun => disabled_count <= max_disables

\* C19: a run that starts with the platform, the statistics, the policies
\* and the lists as the last run left them (that run having failed no
\* request and not stopped at the cap) changes neither ledger and appends
\* no history entry, in a dry run too.
RunIdempotence ==
    (InRun /\ repeat) =>
        /\ Len(history) = hist_start
        /\ disabled_records = load_disabled_records(disabled_file)
        /\ enabled_records = load_disabled_records(enabled_file)

\* the white list names an id and the ids it names resolve to no banner
EmptyAllowList ==
    /\ white_list.campaign_ids \cup white_list.banner_ids # {}
    /\ \A c \in white_list.campaign_ids : campaign_banners(c) = {}
    /\ white_list.banner_ids = {}

----------------------------------------------------------------------------
(* Eligibility *)

\* the banners the white list names, directly or through a campaign
AllowedIds ==
    UNION {campaign_banners(c) : c \in white_list.campaign_ids} \cup white_list.banner_ids

\* the banners the black list names, directly or through a campaign
DeniedIds ==
    UNION {campaign_banners(c) : c \in black_list.campaign_ids} \cup black_list.banner_ids

\* C21: when the white list resolves to a non-empty set, a run makes no
\* suppression or restoration request for a banner outside that set.
AllowListRestricts ==
    (InRun /\ AllowedIds # {}) =>
        \A i \in 1..Len(calls) : calls[i].id \in AllowedIds

\* C21 witness: a run that did not stop at the cap made its one request for
\* a listed banner and none for an active banner outside the white list
\* whose decision is DISABLE
UnlistedCandidatePassed ==
    /\ pc = "done"
    /\ ~stopped_at_cap
    /\ Len(calls) = 1
    /\ calls[1].id \in AllowedIds
    /\ \E b \in Banners \ AllowedIds :
          /\ status[b] = "active"
          /\ run_decision(b) = "DISABLE"
          /\ ~Requested(b)

\* C22: a run makes no suppression or restoration request for a banner the
\* black list names, directly or through a campaign, whatever the white
\* list holds and whatever the decision is.
DenyListExcludes ==
    InRun => \A i \in 1..Len(calls) : calls[i].id \notin DeniedIds

\* C22 witness: a run passed an active banner whose decision is DISABLE,
\* that the white list names and that a campaign of the black list resolves
\* to
DeniedCandidatePassed ==
    /\ pc = "done"
    /\ ~stopped_at_cap
    /\ black_list.campaign_ids # {}
    /\ \E b \in DeniedIds \cap AllowedIds :
          /\ status[b] = "active"
          /\ run_decision(b) = "DISABLE"
          /\ ~Requested(b)
          /\ ~InLedger(disabled_file, b)

\* C23: with ignore_manual_enabled_ads set, a run makes no suppression or
\* restoration request for a banner that is in the disabled ledger when the
\* run starts, whether the platform lists it as active or as blocked.
ManualOverrideBypass ==
    (pc \in {"disable", "enable"} /\ ignore_manual_enabled_ads) =>
        \A i \in 1..Len(calls) : ~InLedger(disabled_file, calls[i].id)

----------------------------------------------------------------------------
(* Notifications *)

\* the time since the last notification is at least the interval
Elapsed(last, every_min, now) == now - last[1] >= every_min[1]

\* C24 as stated: a digest is due exactly when the last notification is
\* unset, or the interval is unset or not positive, or the time since the
\* last notification is at least the interval.
DueExactlyWhenElapsed ==
    ret.fn = "is_due_to_send" =>
        (ret.val <=> \/ ret.last = <<>>
                     \/ ret.every = <<>>
                     \/ ret.every[1] <= 0
                     \/ Elapsed(ret.last, ret.every, ret.now))

\* C24: a digest is due exactly when the last notification is unset, or the
\* interval is unset or not positive, or the time since the last
\* notification is at least the interval, or the last notification is more
\* than a minute ahead of the clock; so with a positive interval a digest
\* goes out only if one of the last two holds.
DueWhenElapsedOrAheadOfClock ==
    /\ [](ret.fn = "is_due_to_send" =>
            (ret.val <=> \/ ret.last = <<>>
                         \/ ret.every = <<>>
                         \/ ret.every[1] <= 0
                         \/ Elapsed(ret.last, ret.every, ret.now)
                         \/ ret.last[1] > ret.now + 1))
    /\ [][(digests' # digests /\ last_notify_utc # <<>> /\ tg_notify_every_min # <<>>
           /\ tg_notify_every_min[1] > 0)
            => \/ Elapsed(last_notify_utc, tg_notify_every_min, now_utc)
               \/ last_notify_utc[1] > now_utc + 1]_vars

\* C24 witness: a digest went out, and the next notification found new
\* events but was not due
Throttled ==
    /\ digests # <<>>
    /\ ret.fn = "is_due_to_send"
    /\ ~ret.val
    /\ ret.last = last_notify_utc
    /\ read_history_events_since(history, last_notify_utc) # <<>>

\* the events of the history that digest d had to report: those newer than
\* the last notification before it
Reported(d) ==
    {i \in 1..d.upto :
        d.since = <<>> \/ history[i].daytime - HistoryOffsetMin > d.since[1]}

\* the latest of them for banner b
LatestReported(d, b) ==
    history[CHOOSE i \in Reported(d) :
               /\ history[i].id_banner = b
               /\ \A k \in Reported(d) :
                     history[k].id_banner = b =>
                        \/ history[k].daytime < history[i].daytime
                        \/ (history[k].daytime = history[i].daytime /\ k <= i)]

Section(entries) == {entries[i] : i \in 1..Len(entries)}

\* C25: a digest holds, for every banner with a history event newer than
\* the last notification, exactly one entry, the latest such event of the
\* banner, among the disabled banners if its status is off and among the
\* enabled ones if it is on; and it holds nothing else.
DigestContent ==
    \A n \in 1..Len(digests) :
        LET d  == digests[n]
            bs == {history[i].id_banner : i \in Reported(d)}
        IN /\ Section(d.off) = {LatestReported(d, b) : b \in {x \in bs : LatestReported(d, x).status = "off"}}
           /\ Section(d.on) = {LatestReported(d, b) : b \in {x \in bs : LatestReported(d, x).status = "on"}}
           /\ Len(d.off) + Len(d.on) = Cardinality(bs)

\* C25 witness: banner 1 went off and later on again since the last
\* notification; the digest holds the on entry alone
OnlyLatestReported ==
    \E n \in 1..Len(digests) :
        /\ digests[n].since # <<>>
        /\ digests[n].upto = 2
        /\ history[1].id_banner = 1 /\ history[1].status = "off"
        /\ history[2].id_banner = 1 /\ history[2].status = "on"
        /\ history[1].daytime < history[2].daytime
        /\ Reported(digests[n]) = {1, 2}
        /\ digests[n].off = <<>>
        /\ digests[n].on = <<history[2]>>

\* C26: the last notification time changes only in a step that hands a
\* digest with at least one entry to Telegram and Telegram takes it; not in
\* a dry run, not when the request fails.
LastSentOnlyAfterDelivery ==
    [][last_notify_utc' # last_notify_utc =>
          /\ Len(digests') = Len(digests) + 1
          /\ digests'[Len(digests')].delivered
          /\ Len(digests'[Len(digests')].off) + Len(digests'[Len(digests')].on) > 0]_vars

----------------------------------------------------------------------------
(* The invocation *)

\* C27: whichever cabinets raise an error while they are processed, main
\* calls process_cabinet for every active cabinet of every user whose files
\* load with active filters, and returns.
IsolateAndContinue ==
    /\ [](outcome = "returned" =>
            \A u \in 1..Len(users), a \in 1..MaxCabinets :
                (users[u].load = "ok" /\ users[u].cabinets[a].active)
                    => <<u, a>> \in attempted)
    /\ <>(outcome = "returned")

\* C27 witness: the first cabinet of the first user raised; the next
\* cabinet of that user and a cabinet of the next user were attempted, and
\* main returned
WentOnAfterCabinetError ==
    /\ outcome = "returned"
    /\ users[1].cabinets[1].active
    /\ users[1].cabinets[1].raises
    /\ {<<1, 1>>, <<1, 2>>, <<2, 1>>} \subseteq attempted

----------------------------------------------------------------------------
(* Persistence *)

\* C28: when a write of a ledger file fails or is interrupted, the file on
\* disk holds either the whole previous array or the whole new array.
AtomicLedgerWrite ==
    writer.at = "failed" => disk \in {WholeFile(writer.old), WholeFile(writer.new)}

\* a is the front of b
IsPrefix(a, b) == Len(a) <= Len(b) /\ SubSeq(b, 1, Len(a)) = a

\* the requests of the run under way that made a transition, in order
Transitions == SelectSeq(calls, LAMBDA c : c.response \in {"204", "dry"})

\* C29: a step never changes or drops an entry of the history, it only
\* appends; and what a run appends is one entry per transition it made, in
\* the order it made them.
HistoryAppendOnly ==
    /\ [][IsPrefix(history, history')]_vars
    /\ [](InRun =>
            /\ Len(history) = hist_start + Len(Transitions)
            /\ \A k \in 1..Len(Transitions) :
                  history[hist_start + k] =
                      [id_banner |-> Transitions[k].id,
                       status |-> IF Transitions[k].action = "disable" THEN "off" ELSE "on"])

\* C29 witness: a run that found entries of an earlier run in the history
\* has made two transitions and is at its end
TwoEntriesAppended ==
    /\ pc = "done"
    /\ hist_start >= 1
    /\ Len(Transitions) = 2
    /\ Len(history) = hist_start + 2

----------------------------------------------------------------------------
(* Unknown keys *)

\* C30: a key the engine does not define, added to an object of the
\* filters, does not change the decision of the run for a banner.
UnknownKeysIgnored ==
    ret.fn = "decide_action_for_banner" => ret.val.state = again.val.state

----------------------------------------------------------------------------
(* Income *)

\* by_day.get(day, {}).get(bid, 0.0)
AmountOfDay(by_day, day, bid) ==
    IF day \in DOMAIN by_day /\ bid \in DOMAIN by_day[day] THEN by_day[day][bid] ELSE 0

RECURSIVE SumOverDays(_, _, _)
SumOverDays(by_day, days, bid) ==
    IF days = {} THEN 0
    ELSE LET d == CHOOSE x \in days : TRUE
         IN AmountOfDay(by_day, d, bid) + SumOverDays(by_day, days \ {d}, bid)

\* the amounts the first k entries of the file give banner bid on the day
RECURSIVE SumOfEntries(_, _, _, _)
SumOfEntries(entries, k, day, bid) ==
    IF k = 0 THEN 0
    ELSE (IF /\ entries[k].day = day
             /\ entries[k].data_is_dict
             /\ bid \in DOMAIN entries[k].data
             /\ entries[k].data[bid] # <<>>
          THEN entries[k].data[bid][1] ELSE 0)
         + SumOfEntries(entries, k - 1, day, bid)

Loaded == again.fn = "load_income_store"

Usable(file) == file.is_list /\ \A i \in 1..Len(file.entries) : file.entries[i].is_dict

WindowDays == IF ret.range = <<>> THEN {} ELSE ret.range[1]..ret.range[2]

\* C31: the lifetime total of every creative is the sum of its by_day
\* amounts over all days, the amount of a day is the sum of the entries of
\* that day, and the income over LAST_N_DAYS(n) is the sum of by_day over the
\* n days today-(n-1)..today, the days of daterange_from_period
IncomeAggregation ==
    /\ Loaded =>
          \A b \in Banners :
             /\ income_for_period(income_store, b, AllTime)
                   = SumOverDays(income_store.by_day, DOMAIN income_store.by_day, b)
             /\ Usable(income_file) =>
                   \A d \in 1..MaxDay :
                      AmountOfDay(income_store.by_day, d, b)
                         = SumOfEntries(income_file.entries, Len(income_file.entries), d, b)
    /\ (ret.fn = "income_for_period" /\ conditions[1].period.type = "LAST_N_DAYS") =>
          LET p == conditions[1].period
              n == IF p.has_n /\ p.n >= 1 THEN p.n ELSE 1
          IN /\ ret.range = <<today - (n - 1), today>>
             /\ \A b \in Banners :
                   ret.val[b] = SumOverDays(income_store.by_day, WindowDays, b)

\* a file with two entries of one day and one of another, summed over two days
RepeatedDaySummed ==
    /\ ret.fn = "income_for_period"
    /\ conditions[1].period = Period("LAST_N_DAYS", TRUE, 2)
    /\ today = 2
    /\ Len(income_file.entries) = 3
    /\ income_file.entries[1].day = 2
    /\ income_file.entries[2].day = 1
    /\ income_file.entries[3].day = 2
    /\ ret.val[1] = 250
    /\ income_for_period(income_store, 1, Today) = 150

----------------------------------------------------------------------------
(* Windows *)

\* the snapshot build_stats_cache stored for the window p and banner b
FetchedFor(p, b) == stats_by_period[add_period(p)][b]

\* C32: for every window a policy references (periods written without n
\* included), the snapshot the evaluator looks up for a banner is the
\* snapshot the run fetched for that window.
WindowResolution ==
    (ret.fn = "decide_action_for_banner" /\ templates = without_unknown_keys(templates)) =>
        \A p \in periods_of_template(templates[1]) \ {NoPeriod} :
            \A b \in Banners : stats_lookup(stats_by_period, p, b) = FetchedFor(p, b)

----------------------------------------------------------------------------
(* Transitions of one run *)

\* C33: in one run no unit gets more than one history entry (no unit is
\* both suppressed and restored), also when a unit is in both lists.
OneTransitionPerRun ==
    InRun => \A b \in Banners : Cardinality(NewEntries(b)) <= 1

----------------------------------------------------------------------------
(* Ledgers and history *)

\* the state of the latest history entry of b, "" if it has none
LatestState(b) ==
    IF \E i \in 1..Len(history) : history[i].id_banner = b
    THEN last_event(history, b).status
    ELSE ""

\* C34: from empty ledgers and an empty history, between runs (runs that an
\* error ended included) the suppressed ledger on disk holds exactly the
\* units whose latest history entry is off, and the restored ledger exactly
\* those whose latest entry is on.
LedgersAgreeWithHistory ==
    pc = "idle" =>
        \A b \in Banners :
            /\ InLedger(disabled_file, b) <=> LatestState(b) = "off"
            /\ InLedger(enabled_file, b) <=> LatestState(b) = "on"

----------------------------------------------------------------------------
(* The cap over many runs *)

\* the decision for b on the statistics the platform holds
StandingDecision(b) ==
    decide_action_for_banner(templates, cabinet_id, b,
                             [p \in {AllTime} |-> banner_stats],
                             income_store, banner_objectives).state

\* b is active, its decision is DISABLE and no list and no bypass excludes it
EligibleCandidate(b) ==
    /\ status[b] = "active"
    /\ StandingDecision(b) = "DISABLE"
    /\ ~(resolve_whitelist(white_list).given /\ b \notin resolve_whitelist(white_list).ids)
    /\ b \notin resolve_blacklist(black_list)
    /\ ~(ignore_manual_enabled_ads /\ InLedger(disabled_file, b))

\* C35: with a cap of at least 1, every eligible active unit whose decision
\* is DISABLE is suppressed after finitely many runs; a suppression request
\* that fails does not count toward the cap and the loop goes on to the
\* next candidate.
NoStarvation ==
    /\ \A b \in Banners : EligibleCandidate(b) ~> (status[b] = "blocked")
    /\ [][Requests("disable", "500") =>
            /\ disabled_count' = disabled_count
            /\ pc' = pc
            /\ todo' = Tail(todo)]_vars

\* banner 1 took the one suppression of a run, so that banner 2 was passed
\* over at the cap, and a later run suppressed banner 2
SuppressedInLaterRun ==
    /\ InRun
    /\ effective_max_disables = 1
    /\ InLedger(disabled_file, 1)
    /\ ~InLedger(disabled_file, 2)
    /\ Len(history) = 2
    /\ history[1] = make_banner_record(1, "off")
    /\ history[2] = make_banner_record(2, "off")
    /\ hist_start = 1
    /\ status[2] = "blocked"

----------------------------------------------------------------------------
(* Digests over time *)

\* a delivered digest holds entry i of the history, or a later entry for
\* the same unit
Covered(i) ==
    \E n \in 1..Len(digests) :
        /\ digests[n].delivered
        /\ \E k \in i..digests[n].upto :
              /\ history[k].id_banner = history[i].id_banner
              /\ history[k] \in Section(digests[n].off) \cup Section(digests[n].on)

\* the notification block will not read entry i again: its time is at or
\* before lastSent, and lastSent only moves on to the time of a later block
ReadNoMore(i) ==
    /\ last_notify_utc # <<>>
    /\ parse_history_daytime_to_utc(history[i].daytime) <= last_notify_utc[1]

\* C36: no transition is lost from the digests: outside a dry run, a
\* history entry that will not be read again is part of a digest that was
\* delivered, or a newer entry for the same unit is; also when its time is
\* the lastSent second and when an earlier dispatch failed.
NoTransitionLost ==
    ~dry_run => \A i \in 1..Len(history) : ReadNoMore(i) => Covered(i)

----------------------------------------------------------------------------
(* Invalid actions *)

\* the rules of the head node of template t match, its action is missing or
\* invalid, and the template is in scope with its root conditions passed
HeadMatchesWithoutAction(t) ==
    /\ ScopeAllows(t)
    /\ ~SomeRootConditionFails(t)
    /\ node_matched(or_default(t.child[1].mode, "ALL"),
                    rule_hits(t.child[1].rules, 1, stats_by_period))
    /\ ~(/\ t.child[1].action.type = "SET_STATE"
         /\ t.child[1].action.state \in {"", "DISABLE", "ENABLE", "NOOP"})

----------------------------------------------------------------------------
(* Retries *)

\* C38: req_with_retry makes at most RETRY_COUNT attempts whatever the
\* server answers, and ends either by returning a response with a status
\* below 400 or by raising the exception of the last attempt that failed
\* with one, also when every attempt is answered with 429.
RetryEndsOneOfTwoWays ==
    /\ attempt <= RETRY_COUNT
    /\ ret.fn = "req_with_retry" =>
          \/ /\ ret.val.kind = "returns"
             /\ ret.val.what = "200"
          \/ /\ ret.val.kind = "raises"
             /\ last_exc # <<>>
             /\ ret.val.what = last_exc[1].error
             /\ ret.val.what \in {raised_by(server[i]) : i \in 1..RETRY_COUNT}

=============================================================================
